---- MODULE Spec2Model ----
(***************************************************************************)
(* Convoy Convergence Engine of gastown: the daemon's ConvoyManager        *)
(* (internal/daemon/convoy_manager.go), the convoy operations              *)
(* (internal/convoy/operations.go) and the close-time fast path            *)
(* (internal/cmd/close.go).                                                *)
(*                                                                         *)
(* The specifications of the module:                                       *)
(*   Spec / FairSpec : the manager's lifecycle at goroutine granularity:   *)
(*       Start, Stop, the event-poll loop, the stranded-scan loop and the  *)
(*       subprocesses they block on.                                       *)
(*   ProtocolSpec    : CheckConvoysForIssue and feedNextReadyIssue as      *)
(*       whole invocations over convoys and tracked issues, invoked by     *)
(*       the poller and by the close-time fast path.                       *)
(*   PollSpec        : pollAllStores and pollStore over event logs,        *)
(*       high-water marks and the warm-up flag, one store per step.        *)
(*   ClassifySpec    : the same poll cycles over logs that also hold       *)
(*       events that are not closes.                                       *)
(*   EngineSpec      : the poller and the stranded scan side by side, one  *)
(*       pollStore call or one convoy of the snapshot per step, with       *)
(*       `gt close` and failing commands.                                  *)
(*   RepairSpec      : poller and scan with every command succeeding and   *)
(*       the scan's ticker firing forever.                                 *)
(*   DispatchSpec    : the two dispatch paths, feeds of the event path and *)
(*       the stranded scan over what the stranded command may print, one   *)
(*       stranded convoy at a time, while a rig is parked and unparked.    *)
(*   ScanSpec        : the stranded scan alone over snapshots of several   *)
(*       entries, with failing commands, parking and cancellation.         *)
(*   MarkSpec        : Start calls and the poll goroutines they spawn,     *)
(*       each pollStore call split into the load of the high-water mark    *)
(*       and the fetch, store and processing that follow.                  *)
(*   HqSpec          : the poll cycles of PollSpec for managers whose      *)
(*       store table may lack the hq store.                                *)
(*   FlightSpec      : the event path and the stranded scan side by side,  *)
(*       each `gt sling` in flight until its subprocess exits.             *)
(*   DedupSpec       : the witness's MessageDeduplicator under calls of    *)
(*       several goroutines (internal/witness/dedup.go).                   *)
(***************************************************************************)
EXTENDS Integers, Sequences, FiniteSets, TLC

----------------------------------------------------------------------------
(* Bounds *)

MaxStartCalls == 2

MaxStopCalls == 2

MaxCmds == 1

MaxCycles == 2

MaxEvents == 2
MaxSnapshot == 2    \* entries of a `convoy stranded` snapshot
MaxSlings == 1      \* slings of one issue after which no scan cycle starts
MaxOpens == 2       \* invocations of the store-opening callback
MaxPatrols == 2     \* goroutines calling the deduplicator
MaxSize == 2        \* capacity of the deduplicator
MaxCalls == 2       \* AlreadyProcessed calls per message id

----------------------------------------------------------------------------
(* Lifecycle state (ConvoyManager fields and goroutine positions) *)

VARIABLES
  started,      \* m.started (atomic.Bool)
  cancelled,    \* m.ctx is done (m.cancel() was called)
  wg,           \* m.wg counter
  stores,       \* keys of m.stores
  openStores,   \* m.openStores # nil
  closeCalls,   \* per store handle: number of Close() calls made by Stop
  startPc,      \* position of each Start() call
  warnings,     \* "Start() already called" log lines
  pollLoops,    \* runEventPoll goroutines spawned
  scanLoops,    \* runStrandedScan goroutines spawned
  stopPc,       \* position of the Stop() call in progress
  stopCalls,    \* Stop() calls that have returned
  pollPc,       \* position of the event-poll goroutine
  pollTick,     \* a tick is buffered on the poll ticker's channel
  pollLeft,     \* subprocess calls left in the current poll cycle
  pollProc,     \* the poll loop's subprocess (process group)
  scanPc,       \* position of the stranded-scan goroutine
  scanTick,     \* a tick is buffered on the scan ticker's channel
  scanLeft,     \* convoys left in the current snapshot
  scanProc,     \* the scan loop's subprocess (process group)
  hungKilled,   \* history: a hung process tree was killed by cancellation
  lazyOpened,   \* history: the store table was filled by the opener callback
  lateLaunch,   \* history: Start() spawned the loops after cancellation
  openCalls,    \* history: invocations of the m.openStores callback
  tickAfterOpen,\* history: a poll tick was taken after the lazy opening
  passedHung,   \* history: a loop took a tick while the other loop was
                \* blocked in a subprocess that never exits
  inflight      \* subprocesses started and not yet reaped

lifeVars == <<started, cancelled, wg, stores, openStores, closeCalls, startPc,
              warnings, pollLoops, scanLoops, stopPc, stopCalls, pollPc,
              pollTick, pollLeft, pollProc, scanPc, scanTick, scanLeft,
              scanProc, hungKilled, lazyOpened, lateLaunch, openCalls,
              tickAfterOpen, passedHung, inflight>>

hist0 == <<hungKilled, lazyOpened, lateLaunch, openCalls, tickAfterOpen,
           passedHung>>

hist == <<hist0, inflight>>

----------------------------------------------------------------------------
(* Data-path state: the beads stores as the engine sees them, the poller's
   marks, and records of what the engine did *)

VARIABLES
  issues,       \* tracked issues: id -> [status, assignee]
  convoys,      \* convoy id -> "open" | "closed" (in the hq store)
  parked,       \* rigs for which isRigParked returns true
  eventLog,     \* store name -> its append-only event log; id = position
  lastEventIDs, \* m.lastEventIDs: store name -> high-water mark
  seeded,       \* m.seeded
  pending,      \* stores the current pollAllStores call has not reached yet
  cycles,       \* pollAllStores calls completed
  startLen,     \* history: store name -> log length when the manager started
  fetched,      \* history: store name -> event ids GetAllEventsSince returned, in order
  notified,     \* history: the events that triggered a check, each
                \* [store, id, cycle, via, examined]
  dispatched,   \* issues with an accepted sling whose polecat has not hooked yet
  runs          \* history: the last CheckConvoysForIssue invocation

engVars == <<issues, convoys, parked, eventLog, lastEventIDs, seeded, pending,
             cycles, startLen, fetched, notified, dispatched, runs>>

----------------------------------------------------------------------------
(* The stranded scan's snapshot, and records of what the loops did *)

VARIABLES
  stranded,     \* scan(): the snapshot entries not processed yet
  slings,       \* history: issue -> number of slings that exited 0
  polled,       \* history: stores fetched from in the current poll cycle
  fetchFailed,  \* history: stores whose fetch failed in the poll cycle under way
  scanLog       \* history: what the scan cycle under way has done, one
                \* record for each snapshot entry it processed, in order

sweepVars == <<stranded, slings, polled, fetchFailed, scanLog>>

(* Finer-grained state: accesses to the high-water marks, slings in flight,
   and the message deduplicator of the witness *)

VARIABLES
  rmw,          \* poll goroutine -> its pollAllStores call under way: the
                \* stores left, the store being polled, the mark it loaded
  flying,       \* loop -> the issue its `gt sling` in flight is for, or ""
  dedup         \* MessageDeduplicator: mu, processed, the calls under way
                \* and the results returned so far

auxVars == <<rmw, flying, dedup>>

vars == <<lifeVars, engVars, sweepVars, auxVars>>

StoreNames == {"hq", "gastown", "shippercrm"}

\* a poll goroutine that is not inside pollAllStores
NoCycle == [on |-> FALSE, left |-> {}, store |-> "", loaded |-> 0]

\* the message ids handed to the deduplicator, the empty one included
MessageIDs == {"", "msg-1", "msg-2", "msg-3"}

\* the patrol goroutines that call the deduplicator
Patrols == 1..MaxPatrols

\* NewMessageDeduplicator(MaxSize): an empty set, the mutex free (0), no
\* call under way; made counts the calls made per message id and rets the
\* results they returned
NewMessageDeduplicator ==
  [mu |-> 0,
   processed |-> {},
   maxSize |-> IF MaxSize <= 0 THEN 10000 ELSE MaxSize,
   calls |-> [c \in Patrols |-> [pc |-> "idle", id |-> "", res |-> FALSE]],
   made |-> [m \in MessageIDs |-> 0],
   rets |-> [m \in MessageIDs |-> [no |-> 0, yes |-> 0]]]

StartCallers == 1..MaxStartCalls

\* A subprocess as cmd.Run sees it: "none" no process; "running" exits by
\* itself; "hung" the child sleeps forever; "hungTree" the child sleeps
\* forever and has descendants that hold its stderr pipe; "orphans" the
\* child is dead but descendants still hold the pipe; "dead" every process
\* of the group is gone and Run can return.
ProcKinds == {"running", "hung", "hungTree"}

----------------------------------------------------------------------------
(* Start *)

CompareAndSwapStarted_NoGuard(cur) == [ok |-> TRUE, val |-> TRUE]

\* m.started.CompareAndSwap(false, true)
CompareAndSwapStarted(cur) == [ok |-> (cur = FALSE), val |-> TRUE]

\* Start(): the guard; a losing call logs the warning and returns.
StartCAS(c) ==
  /\ startPc[c] = "idle"
  /\ LET r == CompareAndSwapStarted(started) IN
       /\ started' = r.val
       /\ IF r.ok
            THEN /\ startPc' = [startPc EXCEPT ![c] = "won"]
                 /\ UNCHANGED warnings
            ELSE /\ startPc' = [startPc EXCEPT ![c] = "done"]
                 /\ warnings' = warnings + 1
  /\ UNCHANGED <<engVars, sweepVars, auxVars,
                 cancelled, wg, stores, openStores, closeCalls, pollLoops,
                 scanLoops, stopPc, stopCalls, pollPc, pollTick, pollLeft,
                 pollProc, scanPc, scanTick, scanLeft, scanProc, hist>>

\* Start(): m.wg.Add(2); go m.runEventPoll(); go m.runStrandedScan()
StartLaunch(c) ==
  /\ startPc[c] = "won"
  /\ startPc' = [startPc EXCEPT ![c] = "done"]
  /\ wg' = wg + 2
  /\ pollLoops' = pollLoops + 1
  /\ scanLoops' = scanLoops + 1
  /\ pollPc' = "entry"
  /\ scanPc' = "findStranded"
  /\ pollTick' = FALSE
  /\ scanTick' = FALSE
  /\ lateLaunch' = (lateLaunch \/ cancelled)
  /\ UNCHANGED <<engVars, sweepVars, auxVars,
                 started, cancelled, stores, openStores, closeCalls, warnings,
                 stopPc, stopCalls, pollLeft, pollProc, scanLeft, scanProc,
                 hungKilled, lazyOpened, openCalls, tickAfterOpen,
                 passedHung, inflight>>

----------------------------------------------------------------------------
(* Stop.  Stop() is called from the daemon's shutdown path: calls follow one
   another, and may interleave with Start() calls and with both loops. *)

WgWaitReturns_NoWait(w) == TRUE

\* m.wg.Wait() returns when the counter is zero
WgWaitReturns(w) == w = 0

\* for name, store := range m.stores { store.Close() }
CloseStores(st, calls) ==
  [s \in StoreNames |-> IF s \in st THEN calls[s] + 1 ELSE calls[s]]

StoresAfterStop_Kept(st) == st

\* m.stores = nil
StoresAfterStop(st) == {}

\* Stop(): m.cancel()
StopCancel ==
  /\ stopPc = "idle"
  /\ stopCalls < MaxStopCalls
  /\ stopPc' = "wait"
  /\ cancelled' = TRUE
  /\ UNCHANGED <<engVars, sweepVars, auxVars,
                 started, wg, stores, openStores, closeCalls, startPc,
                 warnings, pollLoops, scanLoops, stopCalls, pollPc, pollTick,
                 pollLeft, pollProc, scanPc, scanTick, scanLeft, scanProc,
                 hist>>

\* Stop(): m.wg.Wait(), then close every store of the table and clear it
StopWaitClose ==
  /\ stopPc = "wait"
  /\ WgWaitReturns(wg)
  /\ closeCalls' = CloseStores(stores, closeCalls)
  /\ stores' = StoresAfterStop(stores)
  /\ stopPc' = "idle"
  /\ stopCalls' = stopCalls + 1
  /\ UNCHANGED <<engVars, sweepVars, auxVars,
                 started, cancelled, wg, openStores, startPc, warnings,
                 pollLoops, scanLoops, pollPc, pollTick, pollLeft, pollProc,
                 scanPc, scanTick, scanLeft, scanProc, hist>>

----------------------------------------------------------------------------
(* Subprocesses (exec.CommandContext + util.SetProcessGroup) *)

SetProcessGroup_LeaderOnly(p) == IF p = "hungTree" THEN "orphans" ELSE "dead"

\* cmd.Cancel installed by SetProcessGroup: syscall.Kill(-pid, SIGKILL)
\* signals the whole process group, descendants included.
SetProcessGroup(p) == "dead"

RunReturns_NoWait(p) == TRUE

\* cmd.Run returns once the child has exited and its pipes are closed
RunReturns(p) == p \in {"running", "dead"}

ProcAlive(p) == p \in {"running", "hung", "hungTree"}

\* cmd.Run starts the child and waits for it: the count of children in
\* flight rises when a loop's call starts one and falls when the call
\* returns with the child gone.
InFlightDelta(before, after) ==
  IF before = "none" /\ after # "none" THEN 1
  ELSE IF before \in {"running", "dead"} /\ after = "none" THEN -1
  ELSE 0

\* a subprocess that never exits on its own
ProcHung(p) == p \in {"hung", "hungTree"}

Stalled_Either(own, other) == ProcAlive(own) \/ ProcAlive(other)

\* go m.runEventPoll() / go m.runStrandedScan(): each loop is a goroutine of
\* its own and cmd.Run blocks the goroutine that called it, so a loop is held
\* up by its own subprocess only.
Stalled(own, other) == ProcAlive(own)

NeedOpen_EveryTick(st) == TRUE

\* if len(m.stores) == 0: the lazy store initialisation is attempted
NeedOpen(st) == st = {}

----------------------------------------------------------------------------
(* runEventPoll *)

pollRest == <<engVars, sweepVars, auxVars, started, cancelled, openStores, closeCalls, startPc, warnings,
              pollLoops, scanLoops, stopPc, stopCalls, scanPc, scanTick,
              scanLeft, scanProc>>

\* runEventPoll entry: no stores and no opener disables event polling
PollEntry ==
  /\ pollPc = "entry"
  /\ IF stores = {} /\ ~openStores
       THEN /\ pollPc' = "exited"
            /\ wg' = wg - 1
       ELSE /\ pollPc' = "select"
            /\ UNCHANGED wg
  /\ UNCHANGED <<pollRest, stores, pollTick, pollLeft, pollProc, hist>>

\* The poll ticker (eventPollInterval) delivers a tick; the channel buffers one.
\* A tick that arrives after cancellation while the loop is busy leaves the
\* same buffer as one that arrived just before it, so ticks are produced only
\* before cancellation.
PollTickArrives ==
  /\ pollPc \in {"select", "cycle", "cmd"}
  /\ ~cancelled
  /\ ~pollTick
  /\ pollTick' = TRUE
  /\ UNCHANGED <<pollRest, wg, stores, pollPc, pollLeft, pollProc, hist>>

\* select case <-ticker.C: lazy store opening, then pollAllStores
PollSelectTick ==
  /\ pollPc = "select"
  /\ pollTick
  /\ ~Stalled(pollProc, scanProc)
  /\ pollTick' = FALSE
  /\ tickAfterOpen' = (tickAfterOpen \/ lazyOpened)
  /\ passedHung' = (passedHung \/ (ProcHung(scanProc) /\ ~cancelled))
  /\ IF NeedOpen(stores)
       THEN IF openStores
              THEN /\ openCalls < MaxOpens
                   /\ openCalls' = openCalls + 1
                   /\ \E got \in {{}, StoreNames} :
                        /\ stores' = got
                        /\ lazyOpened' = (lazyOpened \/ got # {})
                        /\ IF got = {}
                             THEN UNCHANGED <<pollPc, pollLeft>>
                             ELSE /\ pollPc' = "cycle"
                                  /\ pollLeft' \in 0..MaxCmds
              ELSE UNCHANGED <<stores, lazyOpened, openCalls, pollPc,
                               pollLeft>>
       ELSE /\ pollPc' = "cycle"
            /\ pollLeft' \in 0..MaxCmds
            /\ UNCHANGED <<stores, lazyOpened, openCalls>>
  /\ UNCHANGED <<pollRest, wg, pollProc, hungKilled, lateLaunch, inflight>>

\* select case <-m.ctx.Done(): return (deferred m.wg.Done())
PollSelectDone ==
  /\ pollPc = "select"
  /\ cancelled
  /\ pollPc' = "exited"
  /\ wg' = wg - 1
  /\ UNCHANGED <<pollRest, stores, pollTick, pollLeft, pollProc, hist>>

\* A subprocess call of the cycle (convoy check or sling).  With the context
\* already done exec.CommandContext fails without starting a process.
PollCmdStart ==
  /\ pollPc = "cycle"
  /\ pollLeft > 0
  /\ pollLeft' = pollLeft - 1
  /\ IF cancelled
       THEN UNCHANGED <<pollPc, pollProc>>
       ELSE /\ pollPc' = "cmd"
            /\ pollProc' \in ProcKinds
  /\ inflight' = inflight + InFlightDelta(pollProc, pollProc')
  /\ UNCHANGED <<pollRest, wg, stores, pollTick, hist0>>

\* Cancellation reaches the in-flight subprocess of the poll loop
PollKill ==
  /\ pollPc = "cmd"
  /\ cancelled
  /\ ProcAlive(pollProc)
  /\ pollProc' = SetProcessGroup(pollProc)
  /\ hungKilled' = (hungKilled \/ (pollProc # "running" /\ pollProc' = "dead"))
  /\ UNCHANGED <<pollRest, wg, stores, pollPc, pollTick, pollLeft, lazyOpened,
                 lateLaunch, openCalls, tickAfterOpen, passedHung,
                 inflight>>

\* cmd.Run returns to the poll loop
PollCmdReturn ==
  /\ pollPc = "cmd"
  /\ RunReturns(pollProc)
  /\ pollProc' = "none"
  /\ pollPc' = "cycle"
  /\ inflight' = inflight + InFlightDelta(pollProc, pollProc')
  /\ UNCHANGED <<pollRest, wg, stores, pollTick, pollLeft, hist0>>

\* pollAllStores returns; back to the select
PollCycleEnd ==
  /\ pollPc = "cycle"
  /\ pollLeft = 0
  /\ pollPc' = "select"
  /\ UNCHANGED <<pollRest, wg, stores, pollTick, pollLeft, pollProc, hist>>

----------------------------------------------------------------------------
(* runStrandedScan *)

scanRest == <<engVars, sweepVars, auxVars, started, cancelled, stores, openStores, closeCalls, startPc,
              warnings, pollLoops, scanLoops, stopPc, stopCalls, pollPc,
              pollTick, pollLeft, pollProc>>

\* scan(): findStranded starts `gt convoy stranded --json`
ScanFindStart ==
  /\ scanPc = "findStranded"
  /\ IF cancelled
       THEN /\ scanPc' = "select"
            /\ UNCHANGED scanProc
       ELSE /\ scanPc' = "findCmd"
            /\ scanProc' \in ProcKinds
  /\ inflight' = inflight + InFlightDelta(scanProc, scanProc')
  /\ UNCHANGED <<scanRest, wg, scanTick, scanLeft, hist0>>

\* findStranded returns: an error (exit status, killed, malformed JSON) ends
\* the cycle, a snapshot gives the convoys to walk.
ScanFindReturn ==
  /\ scanPc = "findCmd"
  /\ RunReturns(scanProc)
  /\ scanProc' = "none"
  /\ \/ /\ scanPc' = "select"
        /\ scanLeft' = 0
     \/ /\ scanProc = "running"
        /\ scanPc' = "convoys"
        /\ scanLeft' \in 0..MaxCmds
  /\ inflight' = inflight + InFlightDelta(scanProc, scanProc')
  /\ UNCHANGED <<scanRest, wg, scanTick, hist0>>

\* scan(): one convoy of the snapshot: the cancellation check, then
\* feedFirstReady or closeEmptyConvoy (feedFirstReady may skip without a
\* subprocess).
ScanConvoy ==
  /\ scanPc = "convoys"
  /\ IF scanLeft = 0 \/ cancelled
       THEN /\ scanPc' = "select"
            /\ scanLeft' = 0
            /\ UNCHANGED scanProc
       ELSE /\ scanLeft' = scanLeft - 1
            /\ \/ UNCHANGED <<scanPc, scanProc>>
               \/ /\ scanPc' = "convoyCmd"
                  /\ scanProc' \in ProcKinds
  /\ inflight' = inflight + InFlightDelta(scanProc, scanProc')
  /\ UNCHANGED <<scanRest, wg, scanTick, hist0>>

\* Cancellation reaches the in-flight subprocess of the scan loop
ScanKill ==
  /\ scanPc \in {"findCmd", "convoyCmd"}
  /\ cancelled
  /\ ProcAlive(scanProc)
  /\ scanProc' = SetProcessGroup(scanProc)
  /\ hungKilled' = (hungKilled \/ (scanProc # "running" /\ scanProc' = "dead"))
  /\ UNCHANGED <<scanRest, wg, scanPc, scanTick, scanLeft, lazyOpened,
                 lateLaunch, openCalls, tickAfterOpen, passedHung,
                 inflight>>

\* cmd.Run of sling / convoy check returns to the scan loop
ScanCmdReturn ==
  /\ scanPc = "convoyCmd"
  /\ RunReturns(scanProc)
  /\ scanProc' = "none"
  /\ scanPc' = "convoys"
  /\ inflight' = inflight + InFlightDelta(scanProc, scanProc')
  /\ UNCHANGED <<scanRest, wg, scanTick, scanLeft, hist0>>

\* The scan ticker (m.scanInterval) delivers a tick
ScanTickArrives ==
  /\ scanPc \in {"findStranded", "findCmd", "convoys", "convoyCmd", "select"}
  /\ ~cancelled
  /\ ~scanTick
  /\ scanTick' = TRUE
  /\ UNCHANGED <<scanRest, wg, scanPc, scanLeft, scanProc, hist>>

\* select case <-ticker.C: m.scan()
ScanSelectTick ==
  /\ scanPc = "select"
  /\ scanTick
  /\ ~Stalled(scanProc, pollProc)
  /\ scanTick' = FALSE
  /\ scanPc' = "findStranded"
  /\ passedHung' = (passedHung \/ (ProcHung(pollProc) /\ ~cancelled))
  /\ UNCHANGED <<scanRest, wg, scanLeft, scanProc, hungKilled, lazyOpened,
                 lateLaunch, openCalls, tickAfterOpen, inflight>>

\* select case <-m.ctx.Done(): return (deferred m.wg.Done())
ScanSelectDone ==
  /\ scanPc = "select"
  /\ cancelled
  /\ scanPc' = "exited"
  /\ wg' = wg - 1
  /\ UNCHANGED <<scanRest, scanTick, scanLeft, scanProc, hist>>

----------------------------------------------------------------------------
(* The town: issues, convoys, routes *)

Issues == {"hq-xyz", "gt-abc", "gt-def", "sh-ghi"}

Convoys == {"hq-cv-1", "hq-cv-2"}

\* "tracks" dependency edges of each convoy, in stored order
Tracks ==
  [c \in Convoys |->
     IF c = "hq-cv-1" THEN <<"hq-xyz", "gt-abc", "gt-def", "sh-ghi">>
                      ELSE <<"gt-abc", "sh-ghi">>]

\* status and assignee of an issue as the store reports them
IssueStates ==
  { [status |-> "open",   assignee |-> ""],
    [status |-> "open",   assignee |-> "polecat"],
    [status |-> "hooked", assignee |-> "polecat"],
    [status |-> "closed", assignee |-> ""] }

\* beads.ExtractPrefix: the id's prefix up to and including the first dash
ExtractPrefix(id) ==
  CASE id \in {"hq-xyz", "hq-cv-1", "hq-cv-2"} -> "hq-"
    [] id \in {"gt-abc", "gt-def"} -> "gt-"
    [] id = "sh-ghi" -> "sh-"
    [] id = "zz-nop" -> "zz-"
    [] OTHER -> ""

\* routes.jsonl: prefix -> path
Routes == [p \in {"hq-", "gt-", "sh-"} |->
             CASE p = "hq-" -> "."
               [] p = "gt-" -> "gastown/.beads"
               [] p = "sh-" -> "shippercrm/.beads"]

\* beads.GetRigNameForPrefix: the rig is the first segment of the route's
\* path; the town-level path "." and an unknown prefix give no rig
GetRigNameForPrefix(prefix) ==
  IF prefix \notin DOMAIN Routes THEN ""
  ELSE CASE Routes[prefix] = "gastown/.beads" -> "gastown"
         [] Routes[prefix] = "shippercrm/.beads" -> "shippercrm"
         [] OTHER -> ""

Rigs == {"gastown", "shippercrm"}

\* the store whose event log records changes of an issue or convoy
StoreOf(id) ==
  LET rig == GetRigNameForPrefix(ExtractPrefix(id)) IN
    IF rig = "" THEN "hq" ELSE rig

\* The stores as one value: issue table, convoy table, event logs, the
\* issues a sling has been accepted for, and the count of slings that exited 0.
World == [issues |-> issues, convoys |-> convoys, log |-> eventLog,
          disp |-> dispatched, slung |-> slings]

AppendEvent(w, e) ==
  [w EXCEPT !.log[StoreOf(e.issue)] = Append(@, e)]

SeqToSet(q) == {q[k] : k \in DOMAIN q}

AllTrackedClosed(w, c) ==
  \A i \in SeqToSet(Tracks[c]) : w.issues[i].status = "closed"

\* `gt convoy check <id>`: closes the convoy when every tracked issue is
\* closed, a no-op on a convoy that is closed already; a failing run changes
\* nothing.
ConvoyCheckCmd(w, c, ok) ==
  IF ok /\ w.convoys[c] = "open" /\ AllTrackedClosed(w, c)
    THEN AppendEvent([w EXCEPT !.convoys[c] = "closed"],
                     [type |-> "closed", issue |-> c, new |-> ""])
    ELSE w

----------------------------------------------------------------------------
(* internal/convoy/operations.go *)

\* What `gt sling` can do: exit non-zero; exit 0 with the polecat hooking the
\* issue some time later; exit 0 with the issue hooked when it returns.
SlingResults == {"fail", "accepted", "hooked"}

\* Outcomes of the external calls of one invocation for an issue: the
\* dependents query fails, or it succeeds, `convoy check` exits non-zero for
\* the convoys of chkFail (among those tracking the issue) and every sling
\* ends as the sling field says; or the store's GetIssue fails for the
\* convoy lookups of the invocation while everything else succeeds.
Outcomes(issueID) ==
  {[chkFail |-> {}, sling |-> "accepted", depsFail |-> TRUE,
    lookupFail |-> FALSE],
   [chkFail |-> {}, sling |-> "accepted", depsFail |-> FALSE,
    lookupFail |-> TRUE]} \cup
  [chkFail : SUBSET {c \in Convoys : issueID \in SeqToSet(Tracks[c])},
   sling : SlingResults, depsFail : {FALSE}, lookupFail : {FALSE}]

NoFailure == [chkFail |-> {}, sling |-> "accepted", depsFail |-> FALSE,
              lookupFail |-> FALSE]

\* getTrackingConvoys: dependents of the issue with type "tracks" in the
\* given store; the tracking dependencies live in the hq store; empty on a
\* store error
getTrackingConvoys(w, store, issueID, out) ==
  IF out.depsFail \/ store # "hq" THEN <<>>
  ELSE SelectSeq(<<"hq-cv-1", "hq-cv-2">>,
                 LAMBDA c : issueID \in SeqToSet(Tracks[c]))

\* isConvoyClosed: `if err != nil || issue == nil { return false }`
isConvoyClosed(w, store, convoyID, out) ==
  IF out.lookupFail \/ store # "hq" THEN FALSE
  ELSE w.convoys[convoyID] = "closed"

runConvoyCheck_Force(w, convoyID, ok) ==
  [w EXCEPT !.convoys[convoyID] = "closed"]

\* runConvoyCheck: `gt convoy check <id>`, its error returned to the caller
runConvoyCheck(w, convoyID, ok) == ConvoyCheckCmd(w, convoyID, ok)

NextConvoy_StopOnFailure(k, failed) ==
  IF failed THEN k + Cardinality(Convoys) ELSE k + 1

\* CheckConvoysForIssue: the range loop goes on to the next tracking convoy
\* whether the check or the feed of this one failed or not
NextConvoy(k, failed) == k + 1

\* the priority field of each issue (0 is the most urgent); the convoys
\* store the more urgent issues last
Priority == [i \in Issues |->
               CASE i = "hq-xyz" -> 2
                 [] i = "gt-abc" -> 3
                 [] i = "gt-def" -> 1
                 [] i = "sh-ghi" -> 0]

\* getConvoyTrackedIssues: the tracked ids in stored order with fresh status
getConvoyTrackedIssues(w, convoyID) ==
  [k \in DOMAIN Tracks[convoyID] |->
     [id |-> Tracks[convoyID][k],
      status |-> w.issues[Tracks[convoyID][k]].status,
      assignee |-> w.issues[Tracks[convoyID][k]].assignee,
      priority |-> Priority[Tracks[convoyID][k]]]]

\* a resolution that takes a route to the town level for a rig
rigForIssue_TownAsRig(issueID) ==
  IF ExtractPrefix(issueID) \notin DOMAIN Routes THEN ""
  ELSE IF Routes[ExtractPrefix(issueID)] = "." THEN "town"
  ELSE GetRigNameForPrefix(ExtractPrefix(issueID))

\* rigForIssue
rigForIssue(issueID) ==
  IF ExtractPrefix(issueID) = "" THEN ""
  ELSE GetRigNameForPrefix(ExtractPrefix(issueID))

\* dispatchIssue: `gt sling <issue> <rig> --no-boot`
dispatchIssue(issueID, rig, out) ==
  [issue |-> issueID, rig |-> rig, ok |-> out.sling # "fail"]

AfterDispatch_Continue(rest) == rest

\* feedNextReadyIssue: `return // Feed one at a time`
AfterDispatch(rest) == <<>>

\* a feed that gives up at the first candidate it has to skip
AfterSkip_Return(rest) == <<>>

\* feedNextReadyIssue: `continue` after "cannot determine rig" and after
\* "rig is parked"
AfterSkip(rest) == rest

\* the tracked issues with the most urgent first (priority 0 is the most
\* urgent), ties in stored order
RECURSIVE ScanOrder_ByPriority(_)
ScanOrder_ByPriority(tracked) ==
  IF tracked = <<>> THEN <<>>
  ELSE LET k == CHOOSE j \in DOMAIN tracked :
                  \A n \in DOMAIN tracked :
                    \/ tracked[j].priority < tracked[n].priority
                    \/ tracked[j].priority = tracked[n].priority /\ j <= n
       IN <<tracked[k]>> \o
            ScanOrder_ByPriority([n \in 1..(Len(tracked) - 1) |->
                                    IF n < k THEN tracked[n]
                                    ELSE tracked[n + 1]])

\* feedNextReadyIssue: `for _, issue := range tracked`, the order in which
\* getConvoyTrackedIssues returned them
ScanOrder(tracked) == tracked

\* feedNextReadyIssue: the scan over the tracked issues from position k on;
\* the sling attempts it makes, in order
RECURSIVE FeedScan(_, _, _, _)
FeedScan(tracked, k, isParked, out) ==
  IF k > Len(tracked) THEN <<>>
  ELSE IF tracked[k].status # "open" \/ tracked[k].assignee # ""
    THEN FeedScan(tracked, k + 1, isParked, out)
  ELSE IF rigForIssue(tracked[k].id) = ""
    THEN AfterSkip(FeedScan(tracked, k + 1, isParked, out))
  ELSE IF rigForIssue(tracked[k].id) \in isParked
    THEN AfterSkip(FeedScan(tracked, k + 1, isParked, out))
  ELSE <<dispatchIssue(tracked[k].id, rigForIssue(tracked[k].id), out)>>
         \o AfterDispatch(FeedScan(tracked, k + 1, isParked, out))

\* feedNextReadyIssue: the sling attempts of one invocation
feedNextReadyIssue(w, convoyID, isParked, out) ==
  FeedScan(ScanOrder(getConvoyTrackedIssues(w, convoyID)), 1, isParked, out)

\* The polecat hooks the issue it was spawned for
Hook(w, i) ==
  IF w.issues[i] = [status |-> "open", assignee |-> ""]
    THEN AppendEvent([w EXCEPT !.issues[i] = [status |-> "hooked",
                                              assignee |-> "polecat"],
                               !.disp = @ \ {i}],
                     [type |-> "status_changed", issue |-> i,
                      new |-> "hooked"])
    ELSE [w EXCEPT !.disp = @ \ {i}]

\* The store after the sling attempts of a feed, made in order
RECURSIVE AfterFeed(_, _, _)
AfterFeed(w, attempts, out) ==
  IF attempts = <<>> THEN w
  ELSE LET a == Head(attempts)
           w0 == IF a.ok THEN [w EXCEPT !.slung[a.issue] = @ + 1] ELSE w
           w1 == IF ~a.ok THEN w
                 ELSE IF out.sling = "hooked"
                   THEN Hook(w0, a.issue)
                 ELSE [w0 EXCEPT !.disp = @ \cup {a.issue}]
       IN AfterFeed(w1, Tail(attempts), out)

\* CheckConvoysForIssue: the loop body for the k-th tracking convoy and on.
\* acc.w is the world so far, acc.checks the `convoy check` calls made,
\* acc.feeds the feedNextReadyIssue calls made, each with the tracked issues
\* it loaded and its sling attempts.
RECURSIVE CheckLoop(_, _, _, _, _, _)
CheckLoop(acc, store, convoyIDs, k, isParked, out) ==
  IF k > Len(convoyIDs) THEN acc
  ELSE LET c == convoyIDs[k] IN
    IF isConvoyClosed(acc.w, store, c, out)
      THEN CheckLoop(acc, store, convoyIDs, k + 1, isParked, out)
    ELSE
      LET ok == c \notin out.chkFail
          w1 == runConvoyCheck(acc.w, c, ok)
          checks1 == Append(acc.checks, [convoy |-> c, ok |-> ok])
      IN IF isConvoyClosed(w1, store, c, out)
           THEN CheckLoop([acc EXCEPT !.w = w1, !.checks = checks1],
                          store, convoyIDs, NextConvoy(k, ~ok), isParked, out)
           ELSE
             LET att == feedNextReadyIssue(w1, c, isParked, out) IN
               CheckLoop([w |-> AfterFeed(w1, att, out),
                          checks |-> checks1,
                          feeds |-> Append(acc.feeds,
                                      [convoy |-> c,
                                       tracked |-> getConvoyTrackedIssues(w1, c),
                                       attempts |-> att])],
                         store, convoyIDs,
                         NextConvoy(k, ~ok \/ \E j \in DOMAIN att : ~att[j].ok),
                         isParked, out)

\* CheckConvoysForIssue(ctx, store, townRoot, issueID, caller, ...); a nil
\* store is "" and gives nothing to do
CheckConvoysForIssue(w, store, issueID, isParked, out) ==
  LET ids == IF store = "" THEN <<>>
             ELSE getTrackingConvoys(w, store, issueID, out)
      res == CheckLoop([w |-> w, checks |-> <<>>, feeds |-> <<>>],
                       store, ids, 1, isParked, out)
  IN [w |-> res.w, examined |-> ids, checks |-> res.checks,
      feeds |-> res.feeds]

\* What one invocation is remembered by; seq tells it from the one before
RunRecord(rs, caller, issueID, isParked, out, w, res) ==
  [seq |-> IF rs = <<>> THEN 0 ELSE 1 - rs[1].seq,
   caller |-> caller, issue |-> issueID, parked |-> isParked,
   queryOK |-> ~out.depsFail, lookupOK |-> ~out.lookupFail,
   before |-> [issues |-> w.issues, convoys |-> w.convoys],
   after |-> [issues |-> res.w.issues, convoys |-> res.w.convoys],
   examined |-> res.examined, checks |-> res.checks, feeds |-> res.feeds]

----------------------------------------------------------------------------
(* Initial values *)

\* No scan snapshot and nothing recorded
SweepIdle ==
  /\ stranded = <<>>
  /\ slings = [i \in Issues |-> 0]
  /\ polled = {}
  /\ fetchFailed = {}
  /\ scanLog = <<>>

\* The data path before anything has happened: every issue open and
\* unassigned, every convoy open, empty logs, no marks
EngineIdle ==
  /\ issues = [i \in Issues |-> [status |-> "open", assignee |-> ""]]
  /\ convoys = [c \in Convoys |-> "open"]
  /\ parked = {}
  /\ eventLog = [s \in StoreNames |-> <<>>]
  /\ lastEventIDs = [s \in StoreNames |-> 0]
  /\ seeded = FALSE
  /\ pending = {}
  /\ cycles = 0
  /\ startLen = [s \in StoreNames |-> 0]
  /\ fetched = [s \in StoreNames |-> <<>>]
  /\ notified = {}
  /\ dispatched = {}
  /\ runs = <<>>
  /\ SweepIdle

\* A manager that was constructed with its stores and started once
\* No poll goroutine inside pollAllStores, no sling in flight, and a
\* deduplicator just made by NewMessageDeduplicator
AuxIdle ==
  /\ rmw = [g \in StartCallers |-> NoCycle]
  /\ flying = [poll |-> "", scan |-> ""]
  /\ dedup = NewMessageDeduplicator

\* A manager constructed over the stores st and started, both loops at
\* their select
ManagerRunningOn(st) ==
  /\ AuxIdle
  /\ started = TRUE
  /\ cancelled = FALSE
  /\ wg = 2
  /\ stores = st
  /\ openStores = FALSE
  /\ closeCalls = [s \in StoreNames |-> 0]
  /\ startPc = [c \in StartCallers |-> IF c = 1 THEN "done" ELSE "idle"]
  /\ warnings = 0
  /\ pollLoops = 1
  /\ scanLoops = 1
  /\ stopPc = "idle"
  /\ stopCalls = 0
  /\ pollPc = "select"
  /\ pollTick = FALSE
  /\ pollLeft = 0
  /\ pollProc = "none"
  /\ scanPc = "select"
  /\ scanTick = FALSE
  /\ scanLeft = 0
  /\ scanProc = "none"
  /\ hungKilled = FALSE
  /\ lazyOpened = FALSE
  /\ lateLaunch = FALSE
  /\ openCalls = 0
  /\ tickAfterOpen = FALSE
  /\ passedHung = FALSE
  /\ inflight = 0

ManagerRunning == ManagerRunningOn(StoreNames)

----------------------------------------------------------------------------
(* Lifecycle specification *)

\* NewConvoyManager: stores supplied or nil, opener supplied or nil
Init ==
  /\ started = FALSE
  /\ cancelled = FALSE
  /\ wg = 0
  /\ stores \in {{}, StoreNames}
  /\ openStores \in BOOLEAN
  /\ closeCalls = [s \in StoreNames |-> 0]
  /\ startPc = [c \in StartCallers |-> "idle"]
  /\ warnings = 0
  /\ pollLoops = 0
  /\ scanLoops = 0
  /\ stopPc = "idle"
  /\ stopCalls = 0
  /\ pollPc = "none"
  /\ pollTick = FALSE
  /\ pollLeft = 0
  /\ pollProc = "none"
  /\ scanPc = "none"
  /\ scanTick = FALSE
  /\ scanLeft = 0
  /\ scanProc = "none"
  /\ hungKilled = FALSE
  /\ lazyOpened = FALSE
  /\ lateLaunch = FALSE
  /\ openCalls = 0
  /\ tickAfterOpen = FALSE
  /\ passedHung = FALSE
  /\ inflight = 0
  /\ AuxIdle
  /\ EngineIdle

PollStep ==
  \/ PollEntry
  \/ PollSelectTick
  \/ PollSelectDone
  \/ PollCmdStart
  \/ PollKill
  \/ PollCmdReturn
  \/ PollCycleEnd

ScanStep ==
  \/ ScanFindStart
  \/ ScanFindReturn
  \/ ScanConvoy
  \/ ScanKill
  \/ ScanCmdReturn
  \/ ScanSelectTick
  \/ ScanSelectDone

Next ==
  \/ \E c \in StartCallers : StartCAS(c)
  \/ \E c \in StartCallers : StartLaunch(c)
  \/ StopCancel
  \/ StopWaitClose
  \/ PollTickArrives
  \/ ScanTickArrives
  \/ PollStep
  \/ ScanStep

Spec == Init /\ [][Next]_vars

\* Goroutines that can run do run, the runtime delivers the cancellation to
\* an in-flight command, and a blocked Stop() resumes when the counter is zero.
FairSpec ==
  /\ Spec
  /\ WF_vars(PollStep)
  /\ WF_vars(ScanStep)
  /\ WF_vars(StopWaitClose)
  /\ \A c \in StartCallers : WF_vars(StartLaunch(c))

----------------------------------------------------------------------------
(* Lifecycle properties *)

LoopRunning(pc) == pc \notin {"none", "exited"}

StartDone == {c \in StartCallers : startPc[c] = "done"}

StartWon == {c \in StartCallers : startPc[c] = "won"}

\* C1: however many Start() calls are made, concurrently or not, at most one
\* of them passes the guard and spawns the loops, so there is never more
\* than one event-poll loop and one stranded-scan loop; every other call
\* that has returned has logged the warning and has done nothing else.
C1_SingleStart ==
  /\ pollLoops <= 1
  /\ scanLoops <= 1
  /\ pollLoops = scanLoops
  /\ Cardinality(StartWon) + pollLoops <= 1
  /\ warnings = Cardinality(StartDone) - pollLoops
  /\ wg <= 2

C1_Witness ==
  /\ StartDone = StartCallers
  /\ pollLoops = 1
  /\ scanLoops = 1
  /\ warnings >= 1

\* C2: once Stop() has signalled cancellation and waits, it returns: the
\* cancellation kills an in-flight subprocess with its whole process group,
\* even one that would sleep forever, both loops exit and the wait ends.
C2_StopReturns == (stopPc = "wait") ~> (stopPc = "idle")

C2_Witness ==
  /\ started
  /\ hungKilled
  /\ stopCalls >= 1
  /\ pollPc = "exited"
  /\ scanPc = "exited"

----------------------------------------------------------------------------
(* Completion checking protocol: CheckConvoysForIssue invoked for a closed
   issue by the poller (caller "Convoy", with the manager's parked predicate)
   or by `gt close` (caller "Close", checkConvoyCompletion, which passes no
   parked predicate), from any state of the stores *)

Callers == {"Convoy", "Close"}

\* the issue tables the protocol is started from
StoreStates ==
  {t \in [Issues -> IssueStates] :
     /\ t["hq-xyz"].assignee = ""
     /\ t["gt-def"] # [status |-> "open", assignee |-> "polecat"]
     /\ t["sh-ghi"].assignee = ""}

\* the parked predicate each caller hands to CheckConvoysForIssue
ParkedFor(caller) == IF caller = "Convoy" THEN parked ELSE {}

ProtoInit ==
  /\ ManagerRunning
  /\ issues \in StoreStates
  /\ convoys \in [Convoys -> {"open", "closed"}]
  /\ parked \in {{}, {"gastown"}}
  /\ eventLog = [s \in StoreNames |-> <<>>]
  /\ lastEventIDs = [s \in StoreNames |-> 0]
  /\ seeded = TRUE
  /\ pending = {}
  /\ cycles = 0
  /\ startLen = [s \in StoreNames |-> 0]
  /\ fetched = [s \in StoreNames |-> <<>>]
  /\ notified = {}
  /\ dispatched = {}
  /\ runs = <<>>
  /\ SweepIdle

\* One invocation of CheckConvoysForIssue for a closed issue: what it does
\* to the stores and what is remembered of it
ProtoCheckCore(caller, issueID, out) ==
  /\ issues[issueID].status = "closed"
  /\ \E res \in {CheckConvoysForIssue(World, "hq", issueID,
                                        ParkedFor(caller), out)} :
       /\ issues' = res.w.issues
       /\ convoys' = res.w.convoys
       /\ eventLog' = res.w.log
       /\ dispatched' = res.w.disp
       /\ runs' = <<RunRecord(runs, caller, issueID, ParkedFor(caller),
                              out, World, res)>>
  /\ UNCHANGED <<lifeVars, sweepVars, parked, lastEventIDs, seeded, pending,
                 cycles, startLen, fetched, notified>>

\* One invocation of CheckConvoysForIssue for a closed issue
ProtoCheck(caller, issueID, out) ==
  /\ ProtoCheckCore(caller, issueID, out)
  /\ UNCHANGED auxVars

\* The polecat of an accepted sling hooks its issue
HookLands(i) ==
  /\ i \in dispatched
  /\ LET w == Hook(World, i) IN
       /\ issues' = w.issues
       /\ eventLog' = w.log
       /\ dispatched' = w.disp
  /\ UNCHANGED <<lifeVars, auxVars, sweepVars, convoys, parked, lastEventIDs, seeded, pending,
                 cycles, startLen, fetched, notified, runs>>

ProtoNext ==
  \/ \E caller \in Callers, i \in Issues :
       \E out \in Outcomes(i) : ProtoCheck(caller, i, out)
  \/ \E i \in Issues : HookLands(i)

ProtocolSpec == ProtoInit /\ [][ProtoNext]_vars

----------------------------------------------------------------------------
(* Protocol properties *)

\* the invocation on record made every external call it made successfully
RunClean(r) ==
  /\ r.queryOK
  /\ r.lookupOK
  /\ \A k \in DOMAIN r.checks : r.checks[k].ok
  /\ \A k \in DOMAIN r.feeds :
       \A j \in DOMAIN r.feeds[k].attempts : r.feeds[k].attempts[j].ok

\* the issues an invocation dispatched: its slings that exited 0
Slung(r) ==
  UNION {{r.feeds[k].attempts[j].issue :
            j \in {n \in DOMAIN r.feeds[k].attempts :
                     r.feeds[k].attempts[n].ok}} :
         k \in DOMAIN r.feeds}

\* this step is an invocation that follows an earlier one for the same issue
Repeated ==
  /\ Len(runs) = 1
  /\ Len(runs') = 1
  /\ runs'[1].seq # runs[1].seq
  /\ runs'[1].issue = runs[1].issue
  /\ RunClean(runs[1])
  /\ RunClean(runs'[1])

\* C5: when the completion check is repeated for the same closed issue and
\* the store is as the earlier invocation left it, the convoy states after
\* the repetition are those after the earlier invocation, and the repetition
\* slings no issue that the earlier invocation slung.
C5_Idempotent ==
  [][ (Repeated /\ runs'[1].before = runs[1].after) =>
        /\ runs'[1].after.convoys = runs[1].after.convoys
        /\ Slung(runs'[1]) \cap Slung(runs[1]) = {} ]_vars

\* the store differs from what the invocation on record left only by the
\* polecats of its slings having hooked their issues
OnlyHooksSince(r) ==
  /\ convoys = r.after.convoys
  /\ \A i \in Issues :
       \/ issues[i] = r.after.issues[i]
       \/ /\ i \in Slung(r)
          /\ issues[i] = [status |-> "hooked", assignee |-> "polecat"]

\* C6: when the poller and the close-time fast path both invoke the protocol
\* for the same closed issue, with the same rigs parked for both, the second
\* invocation changes no convoy state and dispatches no issue beyond those
\* the first one dispatched.
C6_MultiTriggerSafe ==
  [][ (/\ Repeated
       /\ runs'[1].caller # runs[1].caller
       /\ runs'[1].parked = runs[1].parked
       /\ OnlyHooksSince(runs[1])) =>
        /\ runs'[1].after.convoys = runs[1].after.convoys
        /\ Slung(runs'[1]) \subseteq Slung(runs[1]) ]_vars

\* the tracked issues a feed may dispatch: open, unassigned, rig resolved and
\* not parked
Dispatchable(tracked, isParked) ==
  SelectSeq(tracked,
            LAMBDA t : /\ t.status = "open"
                       /\ t.assignee = ""
                       /\ rigForIssue(t.id) # ""
                       /\ rigForIssue(t.id) \notin isParked)

\* C10: every feed invocation makes no sling attempt when the convoy has no
\* dispatchable issue, and otherwise exactly one, for the first dispatchable
\* issue in stored order, whether that sling succeeds or fails.
C10_OneDispatchPerFeed ==
  \A n \in DOMAIN runs : \A k \in DOMAIN runs[n].feeds :
    LET f == runs[n].feeds[k]
        ready == Dispatchable(f.tracked, runs[n].parked)
    IN /\ Len(f.attempts) <= 1
       /\ (ready = <<>>) => (f.attempts = <<>>)
       /\ (ready # <<>>) => /\ Len(f.attempts) = 1
                            /\ f.attempts[1].issue = ready[1].id

C10_Witness ==
  \E n \in DOMAIN runs : \E k \in DOMAIN runs[n].feeds :
    LET f == runs[n].feeds[k] IN
      /\ Len(Dispatchable(f.tracked, runs[n].parked)) = 3
      /\ Len(f.attempts) = 1
      /\ f.attempts[1].issue = "gt-abc"
      /\ ~f.attempts[1].ok

\* the k-th tracked issue is a candidate: open and unassigned
Candidate(tracked, k) ==
  tracked[k].status = "open" /\ tracked[k].assignee = ""

\* the k-th tracked issue is a candidate whose rig resolves and is not parked
CanGo(tracked, k, isParked) ==
  /\ Candidate(tracked, k)
  /\ ExtractPrefix(tracked[k].id) # ""
  /\ GetRigNameForPrefix(ExtractPrefix(tracked[k].id)) \notin {""} \cup isParked

Checked(r) == {r.checks[k].convoy : k \in DOMAIN r.checks}

Fed(r) == {r.feeds[k].convoy : k \in DOMAIN r.feeds}

\* C14: in every invocation, each tracking convoy that is open gets its
\* check, and each one still open after its check gets its feed, whatever
\* checks and slings of the other tracking convoys failed.
C14_ConvoysIndependent ==
  \A n \in DOMAIN runs : \A c \in SeqToSet(runs[n].examined) :
    /\ runs[n].before.convoys[c] = "open" => c \in Checked(runs[n])
    /\ runs[n].after.convoys[c] = "open" => c \in Fed(runs[n])

C14_Witness ==
  \E n \in DOMAIN runs :
    /\ runs[n].examined = <<"hq-cv-1", "hq-cv-2">>
    /\ runs[n].checks = <<[convoy |-> "hq-cv-1", ok |-> FALSE],
                          [convoy |-> "hq-cv-2", ok |-> TRUE]>>
    /\ Len(runs[n].feeds) = 2
    /\ runs[n].feeds[1].convoy = "hq-cv-1"
    /\ Len(runs[n].feeds[1].attempts) = 1
    /\ ~runs[n].feeds[1].attempts[1].ok
    /\ runs[n].feeds[2].convoy = "hq-cv-2"
    /\ Len(runs[n].feeds[2].attempts) = 1

\* C15: an invocation runs neither `convoy check` nor feedNextReadyIssue for
\* a tracking convoy that is closed when the invocation reaches it.
C15_ClosedSkipped ==
  \A n \in DOMAIN runs : \A c \in SeqToSet(runs[n].examined) :
    runs[n].before.convoys[c] = "closed" =>
      c \notin Checked(runs[n]) \cup Fed(runs[n])

\* C16: for each tracking convoy that was open, the invocation runs
\* feedNextReadyIssue exactly when the convoy is still open after its
\* `convoy check` has returned.
C16_FeedIffStillOpen ==
  \A n \in DOMAIN runs : \A c \in SeqToSet(runs[n].examined) :
    runs[n].before.convoys[c] = "open" =>
      /\ c \in Checked(runs[n])
      /\ c \in Fed(runs[n]) <=> runs[n].after.convoys[c] = "open"

----------------------------------------------------------------------------
(* Event polling: the pollAllStores calls of a running manager, one pollStore
   per step, while issues are closed and rigs are parked and unparked in
   between *)

\* store.GetAllEventsSince(ctx, highWater): the ids above the mark, in order
GetAllEventsSince(log, highWater) ==
  [k \in 1..(Len(log) - highWater) |-> highWater + k]

AdvanceMark_Stale(highWater, ids) == highWater

\* pollStore: the high-water mark after a fetch
RECURSIVE AdvanceMark(_, _)
AdvanceMark(highWater, ids) ==
  IF ids = <<>> THEN highWater
  ELSE AdvanceMark(IF Head(ids) > highWater THEN Head(ids) ELSE highWater,
                   Tail(ids))

isClose_AnyClosedValue(e) ==
  \/ e.type = "closed"
  \/ e.new = "closed"

\* pollStore: EventClosed, or EventStatusChanged with new value "closed"
isClose(e) ==
  \/ e.type = "closed"
  \/ e.type = "status_changed" /\ e.new = "closed"

SkipStore_Never(name, isParked) == FALSE

SkipStore_HqToo(name, isParked) == isParked

\* pollAllStores: `if name != "hq" && m.isRigParked(name) { continue }`
SkipStore(name, isParked) == name # "hq" /\ isParked

TrackingStore_Polled(name) == name

\* pollStore: `hqStore := m.stores["hq"]`, the store handed to
\* CheckConvoysForIssue whatever store the event came from
TrackingStore(name) == "hq"

\* pollStore: the loop over the fetched events; acc.w is the world so far,
\* acc.seen the events for which a close was detected and the check invoked:
\* the event id, the store the check was handed and the convoys it examined
RECURSIVE ProcessEvents(_, _, _, _, _)
ProcessEvents(acc, name, ids, isParked, out) ==
  IF ids = <<>> THEN acc
  ELSE LET e == acc.w.log[name][Head(ids)] IN
    IF ~isClose(e) \/ e.issue = ""
      THEN ProcessEvents(acc, name, Tail(ids), isParked, out)
      ELSE LET res == CheckConvoysForIssue(acc.w, TrackingStore(name),
                                           e.issue, isParked, out)
           IN ProcessEvents(
                [w |-> res.w,
                 seen |-> acc.seen \cup {[id |-> Head(ids),
                                          via |-> TrackingStore(name),
                                          examined |-> res.examined]}],
                name, Tail(ids), isParked, out)

\* how the commands of one pollStore call end: all succeed, each sling with
\* the issue hooked on return, or all fail
PollOutcomes ==
  {[chkFail |-> {}, sling |-> "hooked", depsFail |-> FALSE,
    lookupFail |-> FALSE],
   [chkFail |-> Convoys, sling |-> "fail", depsFail |-> FALSE,
    lookupFail |-> FALSE]}

\* the way the close of an issue is written to the event log: an explicit
\* close event for town-level issues, a status change for rig issues
CloseForm(i) ==
  IF StoreOf(i) = "hq" THEN [type |-> "closed", new |-> ""]
                       ELSE [type |-> "status_changed", new |-> "closed"]

\* the rigs that get parked and unparked while the manager runs
Parkable == {"gastown", "hq"}

\* the issues that may have been closed before the manager started
Histories == SUBSET {"gt-abc", "sh-ghi"}

\* the log of a store that holds the close events of the issues of h
HistoryLog(name, h) ==
  IF name = "gastown" /\ "gt-abc" \in h
    THEN <<[type |-> "closed", issue |-> "gt-abc", new |-> ""]>>
  ELSE IF name = "shippercrm" /\ "sh-ghi" \in h
    THEN <<[type |-> "status_changed", issue |-> "sh-ghi", new |-> "closed"]>>
  ELSE <<>>

\* stores that may hold close events, nothing polled yet
PollData ==
  /\ \E h \in Histories :
       /\ issues = [i \in Issues |->
                      IF i \in h THEN [status |-> "closed", assignee |-> ""]
                                 ELSE [status |-> "open", assignee |-> ""]]
       /\ eventLog = [s \in StoreNames |-> HistoryLog(s, h)]
       /\ startLen = [s \in StoreNames |-> Len(HistoryLog(s, h))]
  /\ convoys = [c \in Convoys |-> "open"]
  /\ parked = {}
  /\ lastEventIDs = [s \in StoreNames |-> 0]
  /\ seeded = FALSE
  /\ pending = {}
  /\ cycles = 0
  /\ fetched = [s \in StoreNames |-> <<>>]
  /\ notified = {}
  /\ dispatched = {}
  /\ runs = <<>>
  /\ SweepIdle

\* A manager just started against stores that may hold close events
PollInit ==
  /\ ManagerRunning
  /\ PollData

\* the store tables a manager is constructed over: with the hq store, or
\* with rig stores only
StoreTables == {StoreNames, StoreNames \ {"hq"}}

\* A manager just started, with or without the hq store in its table
HqInit ==
  /\ \E st \in StoreTables : ManagerRunningOn(st)
  /\ PollData

pollLife == <<auxVars, started, cancelled, wg, stores, openStores, closeCalls, startPc,
              warnings, pollLoops, scanLoops, stopPc, stopCalls, pollTick,
              pollLeft, pollProc, scanPc, scanTick, scanLeft, scanProc, hist>>

\* pollAllStores with a failing store that ends the whole cycle
PendingAfter_AbortCycle(left, name, failed) ==
  IF failed THEN {} ELSE left \ {name}

\* pollAllStores: `for name, store := range m.stores`; pollStore returns
\* nothing, so a fetch that failed leaves the other stores to the loop
PendingAfter(left, name, failed) == left \ {name}

\* runEventPoll: a tick with stores available; pollAllStores is entered
PollAllStoresBegin ==
  /\ pollPc = "select"
  /\ stores # {}
  /\ cycles < MaxCycles
  /\ pollPc' = "cycle"
  /\ pending' = stores
  /\ polled' = {}
  /\ fetchFailed' = {}
  /\ UNCHANGED <<pollLife, stranded, slings, scanLog, issues, convoys, parked,
                 eventLog, lastEventIDs,
                 seeded, cycles, startLen, fetched, notified, dispatched, runs>>

\* pollAllStores: the loop body for one store, pollStore included
PollStore(name, fetchOK, out) ==
  /\ pollPc = "cycle"
  /\ name \in pending
  /\ pending' = PendingAfter(pending, name,
                              ~SkipStore(name, name \in parked) /\ ~fetchOK)
  /\ polled' = IF SkipStore(name, name \in parked) THEN polled
                ELSE polled \cup {name}
  /\ fetchFailed' = IF ~SkipStore(name, name \in parked) /\ ~fetchOK
                      THEN fetchFailed \cup {name}
                      ELSE fetchFailed
  /\ IF SkipStore(name, name \in parked) \/ ~fetchOK
       THEN UNCHANGED <<issues, convoys, eventLog, lastEventIDs, fetched,
                        notified, dispatched, slings>>
       ELSE LET ids == GetAllEventsSince(eventLog[name], lastEventIDs[name]) IN
         /\ lastEventIDs' = [lastEventIDs EXCEPT ![name] = AdvanceMark(@, ids)]
         /\ fetched' = [fetched EXCEPT ![name] = @ \o ids]
         /\ IF ~seeded \/ "hq" \notin stores
              THEN UNCHANGED <<issues, convoys, eventLog, notified, dispatched,
                               slings>>
              ELSE \E r \in {ProcessEvents([w |-> World, seen |-> {}], name,
                                            ids, parked, out)} :
                /\ issues' = r.w.issues
                /\ convoys' = r.w.convoys
                /\ eventLog' = r.w.log
                /\ dispatched' = r.w.disp
                /\ slings' = r.w.slung
                /\ notified' = notified \cup
                     {[store |-> name, id |-> n.id, cycle |-> cycles + 1,
                       via |-> n.via, examined |-> n.examined] :
                        n \in r.seen}
  /\ UNCHANGED <<pollLife, stranded, scanLog, pollPc, parked, seeded, cycles,
                 startLen, runs>>

\* pollAllStores: after the loop, `m.seeded = true`
PollAllStoresEnd ==
  /\ pollPc = "cycle"
  /\ pending = {}
  /\ seeded' = TRUE
  /\ cycles' = cycles + 1
  /\ pollPc' = "select"
  /\ fetchFailed' = {}
  /\ UNCHANGED <<pollLife, stranded, slings, polled, scanLog, issues, convoys,
                 parked, eventLog, lastEventIDs, pending, startLen, fetched,
                 notified, dispatched, runs>>

\* Somebody closes an issue; the store logs the close
CloseIssue(i) ==
  /\ issues[i].status # "closed"
  /\ Len(eventLog[StoreOf(i)]) < MaxEvents
  /\ issues' = [issues EXCEPT ![i] = [status |-> "closed", assignee |-> ""]]
  /\ eventLog' = [eventLog EXCEPT ![StoreOf(i)] =
                    Append(@, [type |-> CloseForm(i).type, issue |-> i,
                               new |-> CloseForm(i).new])]
  /\ dispatched' = dispatched \ {i}
  /\ UNCHANGED <<lifeVars, auxVars, sweepVars, convoys, parked, lastEventIDs, seeded, pending,
                 cycles, startLen, fetched, notified, runs>>

\* the events other than closes that the stores log besides the status
\* changes of hooked issues: a close event that names no issue, and an update
\* of another kind whose new value reads "closed"
OtherEvents ==
  {[type |-> "closed", issue |-> "", new |-> ""],
   [type |-> "updated", issue |-> "gt-def", new |-> "closed"]}

\* A store logs an event that is not the close of an issue
LogOther(e) ==
  /\ Len(eventLog[StoreOf(e.issue)]) < MaxEvents
  /\ eventLog' = [eventLog EXCEPT ![StoreOf(e.issue)] = Append(@, e)]
  /\ UNCHANGED <<lifeVars, auxVars, sweepVars, issues, convoys, parked, lastEventIDs,
                 seeded, pending, cycles, startLen, fetched, notified,
                 dispatched, runs>>

\* A rig is parked or unparked
SetParked(rig, on) ==
  /\ parked' = IF on THEN parked \cup {rig} ELSE parked \ {rig}
  /\ parked' # parked
  /\ UNCHANGED <<lifeVars, auxVars, sweepVars, issues, convoys, eventLog, lastEventIDs, seeded,
                 pending, cycles, startLen, fetched, notified, dispatched,
                 runs>>

PollNext ==
  \/ PollAllStoresBegin
  \/ \E name \in StoreNames, fetchOK \in BOOLEAN, out \in PollOutcomes :
       PollStore(name, fetchOK, out)
  \/ PollAllStoresEnd
  \/ \E i \in Issues : CloseIssue(i)
  \/ \E rig \in Parkable, on \in BOOLEAN : SetParked(rig, on)

PollSpec == PollInit /\ [][PollNext]_vars

\* The same poll cycles for a manager whose table may lack the hq store
HqSpec == HqInit /\ [][PollNext]_vars

(* Event classification: the poll cycles of a manager started against empty
   logs, while the stores log closes and events of other kinds *)

ClassifyInit ==
  /\ PollInit
  /\ eventLog = [s \in StoreNames |-> <<>>]

\* The poll cycles of the classification; every fetch succeeds
ClassifyNext ==
  \/ PollAllStoresBegin
  \/ \E name \in StoreNames, out \in PollOutcomes :
       PollStore(name, TRUE, out)
  \/ PollAllStoresEnd
  \/ \E i \in Issues : CloseIssue(i)
  \/ \E e \in OtherEvents : LogOther(e)

ClassifySpec == ClassifyInit /\ [][ClassifyNext]_vars

----------------------------------------------------------------------------
(* Polling properties *)

\* C7: the ids a store's fetches report, taken over all poll cycles in
\* order, are strictly increasing and never above the store's mark, and a
\* store's mark never decreases: no cycle reports an event with an id at or
\* below the mark an earlier cycle left.
C7_MarksMonotonic ==
  /\ [](\A s \in StoreNames :
          /\ \A k \in DOMAIN fetched[s] :
               /\ fetched[s][k] <= lastEventIDs[s]
               /\ k > 1 => fetched[s][k - 1] < fetched[s][k])
  /\ [][\A s \in StoreNames : lastEventIDs'[s] >= lastEventIDs[s]]_vars

C7_Witness ==
  \E n \in notified :
    /\ n.id = 2
    /\ startLen[n.store] = 1
    /\ fetched[n.store] = <<1, 2>>
    /\ lastEventIDs[n.store] = 2
    /\ \A m \in notified : m.store = n.store => m.id = 2

\* C8: a manager started against stores that hold close events triggers no
\* completion check in poll cycle 1, and none in cycle 2 either while no
\* store has a new event.
C8_WarmUpSuppression ==
  [][ (cycles < 2 /\ \A s \in StoreNames : Len(eventLog[s]) = startLen[s])
        => notified' = {} ]_vars

\* C9: no event that was in a store's log when the manager started ever
\* triggers a completion check.
C9_NoHistoryReplay ==
  \A n \in notified : n.id > startLen[n.store]

\* C17: while a rig other than hq is parked, a poll cycle does not fetch
\* from its store, leaves the store's mark as it is and triggers no
\* completion check from the store's events.
C17_ParkedStoreSkipped ==
  [][ \A s \in StoreNames \ {"hq"} :
        s \in parked =>
          /\ s \notin polled' \ polled
          /\ lastEventIDs'[s] = lastEventIDs[s]
          /\ fetched'[s] = fetched[s]
          /\ \A n \in notified' \ notified : n.store # s ]_vars

C17_Witness ==
  /\ seeded
  /\ pollPc = "cycle"
  /\ "gastown" \in parked
  /\ "gastown" \notin pending \cup polled
  /\ Len(eventLog["gastown"]) > lastEventIDs["gastown"]
  /\ isClose(eventLog["gastown"][Len(eventLog["gastown"])])
  /\ \A n \in notified : n.store # "gastown"

\* C18: every poll cycle fetches from the store named hq, parked or not:
\* no cycle ends without GetAllEventsSince having been called on hq.
C18_HqAlwaysPolled ==
  [][ (pollPc = "cycle" /\ pollPc' = "select") => "hq" \in polled ]_vars

C18_Witness ==
  /\ pollPc = "cycle"
  /\ parked = {"gastown", "hq"}
  /\ pending = {"shippercrm"}
  /\ polled = {"hq"}

\* C19: every completion check the poller triggers, for a close found in
\* the hq store or in a rig store, is handed the hq store, and so examines
\* exactly the convoys that track the closed issue.
C19_ChecksQueryHq ==
  \A n \in notified :
    /\ n.via = "hq"
    /\ SeqToSet(n.examined) =
         {c \in Convoys :
            eventLog[n.store][n.id].issue \in SeqToSet(Tracks[c])}

C19_Witness ==
  /\ \E n \in notified :
       n.store = "gastown" /\ n.examined = <<"hq-cv-1", "hq-cv-2">>
  /\ \E n \in notified :
       n.store = "hq" /\ n.examined = <<"hq-cv-1">>

\* the ids a step fetched from a store, and those of the completion checks
\* it triggered from the store
Batch(s) == {fetched'[s][k] : k \in (Len(fetched[s]) + 1)..Len(fetched'[s])}

Triggered(s) == {n.id : n \in {m \in notified' \ notified : m.store = s}}

\* C20: once the warm-up cycle is over, the events of a fetch that trigger a
\* completion check are exactly those that name an issue and are either of
\* the closed type or a status change whose new value is "closed".
C20_CloseClassification ==
  [][ seeded =>
        \A s \in StoreNames :
          Triggered(s) =
            {i \in Batch(s) :
               /\ eventLog[s][i].issue # ""
               /\ \/ eventLog[s][i].type = "closed"
                  \/ /\ eventLog[s][i].type = "status_changed"
                     /\ eventLog[s][i].new = "closed"} ]_vars

C20_Witness ==
  /\ Len(eventLog["gastown"]) >= 2
  /\ eventLog["gastown"][1] =
       [type |-> "status_changed", issue |-> "gt-abc", new |-> "closed"]
  /\ eventLog["gastown"][2] =
       [type |-> "updated", issue |-> "gt-def", new |-> "closed"]
  /\ fetched["gastown"] = <<1, 2>>
  /\ Len(eventLog["hq"]) >= 2
  /\ eventLog["hq"][1] = [type |-> "closed", issue |-> "hq-xyz", new |-> ""]
  /\ eventLog["hq"][2] = [type |-> "closed", issue |-> "", new |-> ""]
  /\ fetched["hq"] = <<1, 2>>
  /\ {[store |-> n.store, id |-> n.id] : n \in notified} =
       {[store |-> "gastown", id |-> 1], [store |-> "hq", id |-> 1]}


\* C21: a fetch that fails abandons only that store for the cycle: in the
\* step where the fetch of store s fails, the mark of s and what was fetched
\* from it stay as they were, nothing is notified, no issue or convoy changes,
\* the cycle goes on with every other store that was still to be polled, and
\* the next cycle starts with every store to be polled, s among them
C21_FetchFailureIsolated ==
  [][/\ \A s \in StoreNames :
         (s \notin fetchFailed /\ s \in fetchFailed') =>
           (/\ lastEventIDs' = lastEventIDs
            /\ fetched' = fetched
            /\ notified' = notified
            /\ issues' = issues /\ convoys' = convoys /\ slings' = slings
            /\ pollPc' = "cycle"
            /\ pending' = pending \ {s}
            /\ s \in polled')
     /\ (pollPc = "select" /\ pollPc' = "cycle") =>
           (pending' = stores /\ fetchFailed' = {})
     /\ (pollPc = "cycle" /\ pollPc' = "select") =>
           (pending = {} /\ fetchFailed \subseteq polled)]_vars

\* C21 happens: in the first cycle the fetch from gastown failed while its
\* log held an event, the other two stores were fetched from in the same
\* cycle, hq's events among them, and gastown's event is still unread
C21_Witness ==
  /\ cycles = 0 /\ pollPc = "cycle" /\ pending = {}
  /\ fetchFailed = {"gastown"}
  /\ polled = StoreNames
  /\ eventLog["gastown"] # <<>> /\ fetched["gastown"] = <<>>
  /\ lastEventIDs["gastown"] = 0
  /\ fetched["hq"] # <<>>

----------------------------------------------------------------------------
(* The stranded scan, and the engine as a whole: the poller and the scanner
   of a running manager side by side, one pollStore call or one convoy of
   the snapshot per step, while issues are closed *)

\* the tracked issues of a convoy that are open and unassigned, in stored
\* order
ReadyIssues(w, c) ==
  SelectSeq(Tracks[c],
            LAMBDA i : w.issues[i] = [status |-> "open", assignee |-> ""])

\* `gt convoy stranded --json`: the open convoys that have ready work or
\* nothing left to do, each with its ready issues
ConvoyStrandedCmd(w) ==
  SelectSeq([k \in 1..2 |->
               [id |-> <<"hq-cv-1", "hq-cv-2">>[k],
                ready_count |-> Len(ReadyIssues(w, <<"hq-cv-1", "hq-cv-2">>[k])),
                ready_issues |-> ReadyIssues(w, <<"hq-cv-1", "hq-cv-2">>[k])]],
            LAMBDA e : /\ w.convoys[e.id] = "open"
                       /\ \/ e.ready_count > 0
                          \/ AllTrackedClosed(w, e.id))

\* a findStranded that hands on what was decoded before the error
parseStranded_KeepPartial(stdout, ok) == stdout

\* findStranded: `return nil, err` when the command or json.Unmarshal fails,
\* the decoded entries otherwise
parseStranded(stdout, ok) == IF ok THEN stdout ELSE <<>>

\* findStranded: the parsed snapshot; an error gives scan() nothing to walk
findStranded(w, ok) == parseStranded(ConvoyStrandedCmd(w), ok)

\* a scan that goes on after cancellation
CtxDone_Never(c) == FALSE

\* scan: `select { case <-m.ctx.Done(): return; default: }`
CtxDone(c) == c

\* a scan that ends at the first convoy whose command failed
AfterConvoy_StopOnFailure(rest, failed) == IF failed THEN <<>> ELSE rest

\* scan: the loop goes on to the next entry whatever the command returned
AfterConvoy(rest, failed) == rest

\* a feed that takes the last listed ready issue
FirstReady_Last(ready) == ready[Len(ready)]

\* feedFirstReady: `issueID := c.ReadyIssues[0]`
FirstReady(ready) == ready[1]

\* feedFirstReady: what it does with the entry: "sling", or the reason why
\* it returns without a sling
FirstReadyStep(c, isParked) ==
  IF c.ready_issues = <<>> THEN "empty"
  ELSE IF ExtractPrefix(FirstReady(c.ready_issues)) = "" THEN "noprefix"
  ELSE IF GetRigNameForPrefix(ExtractPrefix(FirstReady(c.ready_issues))) = ""
    THEN "norig"
  ELSE IF GetRigNameForPrefix(ExtractPrefix(FirstReady(c.ready_issues)))
            \in isParked
    THEN "parked"
  ELSE "sling"

ScanRoute_FeedOnly(readyCount) == "feed"

\* a scan that closes only on a count of exactly zero
ScanRoute_ZeroOnly(readyCount) == IF readyCount = 0 THEN "close" ELSE "feed"

\* scan: `if c.ReadyCount > 0 { feedFirstReady } else { closeEmptyConvoy }`
ScanRoute(readyCount) == IF readyCount > 0 THEN "feed" ELSE "close"

\* feedFirstReady: sling ReadyIssues[0] of the snapshot entry to its rig
feedFirstReady(w, c, isParked, out) ==
  IF FirstReadyStep(c, isParked) # "sling" THEN w
  ELSE AfterFeed(w,
         <<dispatchIssue(FirstReady(c.ready_issues),
                         GetRigNameForPrefix(
                           ExtractPrefix(FirstReady(c.ready_issues))),
                         out)>>,
         out)

\* closeEmptyConvoy: `gt convoy check <id>`, its error only logged
closeEmptyConvoy(w, convoyID, out) ==
  ConvoyCheckCmd(w, convoyID, convoyID \notin out.chkFail)

\* What scan() did with one snapshot entry: the entry, the command it ran
\* ("sling", "check") or the reason it ran none, the issue and rig of the
\* sling, the rigs parked at the time, and whether the command exited 0
ScanRecord(c, isParked, out) ==
  LET did == IF ScanRoute(c.ready_count) = "feed"
               THEN FirstReadyStep(c, isParked) ELSE "check"
  IN [entry |-> c,
      did |-> did,
      issue |-> IF did = "sling" THEN FirstReady(c.ready_issues) ELSE "",
      rig |-> IF did = "sling"
                THEN GetRigNameForPrefix(
                       ExtractPrefix(FirstReady(c.ready_issues)))
                ELSE "",
      parked |-> isParked,
      ok |-> CASE did = "sling" -> out.sling # "fail"
               [] did = "check" -> c.id \notin out.chkFail
               [] OTHER -> TRUE]

\* What scan() logs when findStranded returned an error
ScanFailed ==
  [entry |-> [id |-> "", ready_count |-> 0, ready_issues |-> <<>>],
   did |-> "error", issue |-> "", rig |-> "", parked |-> {}, ok |-> FALSE]

\* `bd close <id>`: the issue is closed and its store logs the close
BdClose(w, i) ==
  [w EXCEPT !.issues[i] = [status |-> "closed", assignee |-> ""],
            !.log[StoreOf(i)] = Append(@, [type |-> CloseForm(i).type,
                                           issue |-> i,
                                           new |-> CloseForm(i).new]),
            !.disp = @ \ {i}]

\* the issues closed before the manager started
ClosedAtStart == {"hq-xyz", "sh-ghi"}

\* A manager just started in a town where hq-xyz and sh-ghi are closed
\* already: hq-cv-1 has gt-abc and gt-def left, hq-cv-2 has gt-abc left
EngineInit ==
  /\ ManagerRunning
  /\ issues = [i \in Issues |->
                 IF i \in ClosedAtStart
                   THEN [status |-> "closed", assignee |-> ""]
                   ELSE [status |-> "open", assignee |-> ""]]
  /\ eventLog = [s \in StoreNames |->
                   SelectSeq(<<[type |-> CloseForm("hq-xyz").type,
                                issue |-> "hq-xyz",
                                new |-> CloseForm("hq-xyz").new],
                               [type |-> CloseForm("sh-ghi").type,
                                issue |-> "sh-ghi",
                                new |-> CloseForm("sh-ghi").new]>>,
                             LAMBDA e : StoreOf(e.issue) = s)]
  /\ startLen = [s \in StoreNames |->
                   Cardinality({i \in ClosedAtStart : StoreOf(i) = s})]
  /\ convoys = [c \in Convoys |-> "open"]
  /\ parked = {}
  /\ lastEventIDs = [s \in StoreNames |-> 0]
  /\ seeded = FALSE
  /\ pending = {}
  /\ cycles = 0
  /\ fetched = [s \in StoreNames |-> <<>>]
  /\ notified = {}
  /\ dispatched = {}
  /\ runs = <<>>
  /\ SweepIdle

sweepLife0 == <<started, cancelled, wg, stores, openStores, closeCalls,
                startPc, warnings, pollLoops, scanLoops, stopPc, stopCalls,
                pollPc, pollTick, pollLeft, pollProc, scanTick, scanLeft,
                scanProc, hist>>

sweepLife == <<auxVars, sweepLife0>>

\* runStrandedScan: m.scan() is entered and findStranded returns
SweepFind(ok) ==
  /\ scanPc = "select"
  /\ stranded' = findStranded(World, ok)
  /\ scanLog' = IF ok THEN <<>> ELSE <<ScanFailed>>
  /\ scanPc' = "convoys"
  /\ UNCHANGED <<sweepLife, engVars, slings, polled, fetchFailed>>

\* scan: the loop body for one convoy of the snapshot; with the context
\* cancelled scan() returns instead
SweepConvoyCore(out) ==
  /\ scanPc = "convoys"
  /\ stranded # <<>>
  /\ IF CtxDone(cancelled)
       THEN /\ stranded' = <<>>
            /\ scanLog' = <<>>
            /\ scanPc' = "select"
            /\ UNCHANGED <<issues, convoys, eventLog, dispatched, slings>>
       ELSE /\ \E w \in {IF ScanRoute(Head(stranded).ready_count) = "feed"
                            THEN feedFirstReady(World, Head(stranded), parked,
                                                out)
                            ELSE closeEmptyConvoy(World, Head(stranded).id,
                                                  out)} :
                 /\ issues' = w.issues
                 /\ convoys' = w.convoys
                 /\ eventLog' = w.log
                 /\ dispatched' = w.disp
                 /\ slings' = w.slung
            /\ scanLog' = Append(scanLog,
                                 ScanRecord(Head(stranded), parked, out))
            /\ stranded' = AfterConvoy(Tail(stranded),
                                       ~ScanRecord(Head(stranded), parked,
                                                   out).ok)
            /\ scanPc' = "convoys"
  /\ UNCHANGED <<sweepLife0, parked, lastEventIDs, seeded, pending, cycles,
                 startLen, fetched, notified, runs, polled, fetchFailed>>

SweepConvoy(out) ==
  /\ SweepConvoyCore(out)
  /\ UNCHANGED auxVars

\* scan: the loop is over, or findStranded failed, and scan() returns
SweepReturn ==
  /\ scanPc = "convoys"
  /\ stranded = <<>>
  /\ scanLog' = <<>>
  /\ scanPc' = "select"
  /\ UNCHANGED <<sweepLife, engVars, stranded, slings, polled, fetchFailed>>

\* runClose: `bd close`, then checkConvoyCompletion with no parked predicate
GtClose(i, out) ==
  /\ issues[i].status # "closed"
  /\ Len(eventLog[StoreOf(i)]) < MaxEvents
  /\ \E res \in {CheckConvoysForIssue(BdClose(World, i), "hq", i, {}, out)} :
       /\ issues' = res.w.issues
       /\ convoys' = res.w.convoys
       /\ eventLog' = res.w.log
       /\ dispatched' = res.w.disp
       /\ slings' = res.w.slung
  /\ UNCHANGED <<lifeVars, auxVars, stranded, polled, fetchFailed, scanLog, parked,
                 lastEventIDs, seeded, pending, cycles, startLen, fetched,
                 notified, runs>>

\* The engine; its fetches succeed, the failing ones being PollSpec's subject
EngineNext ==
  \/ PollAllStoresBegin
  \/ \E name \in StoreNames, out \in PollOutcomes :
       PollStore(name, TRUE, out)
  \/ PollAllStoresEnd
  \/ \E ok \in BOOLEAN : SweepFind(ok)
  \/ \E out \in PollOutcomes : SweepConvoy(out)
  \/ SweepReturn
  \/ \E i \in Issues : CloseIssue(i)
  \/ \E i \in Issues, out \in PollOutcomes : GtClose(i, out)

EngineSpec == EngineInit /\ [][EngineNext]_vars

(* The manager left running with every command succeeding: issues are
   closed by other means than `gt close`, the poller and the scanner go on,
   and the scanner's ticker keeps firing *)

\* every command of a step exits 0, a sling with the issue hooked
AllSucceed ==
  [chkFail |-> {}, sling |-> "hooked", depsFail |-> FALSE,
   lookupFail |-> FALSE]

Sweep ==
  \/ SweepFind(TRUE)
  \/ SweepConvoy(AllSucceed)
  \/ SweepReturn

RepairNext ==
  \/ PollAllStoresBegin
  \/ \E name \in StoreNames : PollStore(name, TRUE, AllSucceed)
  \/ PollAllStoresEnd
  \/ Sweep
  \/ \E i \in Issues : CloseIssue(i)

RepairSpec == EngineInit /\ [][RepairNext]_vars /\ WF_vars(Sweep)

----------------------------------------------------------------------------
(* Engine properties *)

\* gt-abc was closed while gt-def had not been hooked: the gastown log holds
\* the close of gt-abc with no event of gt-def before it
GtAbcClosedFirst ==
  \E k \in DOMAIN eventLog["gastown"] :
    /\ eventLog["gastown"][k].issue = "gt-abc"
    /\ isClose(eventLog["gastown"][k])
    /\ \A j \in 1..(k - 1) : eventLog["gastown"][j].issue # "gt-def"

----------------------------------------------------------------------------
(* The two dispatch paths side by side, with one convoy stranded at a time,
   and the stranded scan alone, fed with the snapshots the stranded command
   may print: the manager trusts each entry as it is *)

\* Entries of a snapshot: consistent ones, a count without a list, a
\* negative count with a list, a first ready issue of the town level and one
\* whose prefix has no route
StrandedEntries ==
  {[id |-> "hq-cv-1", ready_count |-> 2,
    ready_issues |-> <<"gt-abc", "sh-ghi">>],
   [id |-> "hq-cv-2", ready_count |-> 1, ready_issues |-> <<"sh-ghi">>],
   [id |-> "hq-cv-2", ready_count |-> 0, ready_issues |-> <<>>],
   [id |-> "hq-cv-1", ready_count |-> 1, ready_issues |-> <<>>],
   [id |-> "hq-cv-1", ready_count |-> 0 - 1, ready_issues |-> <<"gt-abc">>],
   [id |-> "hq-cv-1", ready_count |-> 2,
    ready_issues |-> <<"hq-xyz", "gt-abc">>],
   [id |-> "hq-cv-2", ready_count |-> 2,
    ready_issues |-> <<"zz-nop", "sh-ghi">>]}

\* the snapshots of up to MaxSnapshot entries, all prefixes routed
Snapshots ==
  UNION {[1..n -> {e \in StrandedEntries :
                     \A k \in DOMAIN e.ready_issues :
                       ExtractPrefix(e.ready_issues[k]) \in DOMAIN Routes}]
           : n \in 0..MaxSnapshot}

\* runStrandedScan: m.scan() is entered and findStranded returns with what
\* `gt convoy stranded --json` printed; the command fails when it is started
\* with a cancelled context
SweepSnap(snap, ok) ==
  /\ scanPc = "select"
  /\ \A i \in Issues : slings[i] < MaxSlings
  /\ stranded' = parseStranded(snap, ok /\ ~cancelled)
  /\ scanLog' = IF ok /\ ~cancelled THEN <<>> ELSE <<ScanFailed>>
  /\ scanPc' = "convoys"
  /\ UNCHANGED <<sweepLife, engVars, slings, polled, fetchFailed>>

\* A started manager and every issue open; gt-def is the issue that gets
\* closed
DispatchInit ==
  /\ ManagerRunning
  /\ EngineIdle

DispatchNext ==
  \/ CloseIssue("gt-def")
  \/ \E caller \in Callers, i \in Issues, out \in PollOutcomes :
       ProtoCheck(caller, i, out)
  \/ \E on \in BOOLEAN : SetParked("gastown", on)
  \/ \E e \in StrandedEntries, ok \in BOOLEAN : SweepSnap(<<e>>, ok)
  \/ \E out \in PollOutcomes : SweepConvoy(out)
  \/ SweepReturn

DispatchSpec == DispatchInit /\ [][DispatchNext]_vars

\* The stranded scan alone, while the issues of hq-cv-2 get closed, rigs
\* are parked and unparked and the manager is stopped
ScanNext ==
  \/ \E i \in SeqToSet(Tracks["hq-cv-2"]) : CloseIssue(i)
  \/ \E on \in BOOLEAN : SetParked("gastown", on)
  \/ \E snap \in Snapshots, ok \in BOOLEAN : SweepSnap(snap, ok)
  \/ \E out \in PollOutcomes : SweepConvoy(out)
  \/ SweepReturn
  \/ StopCancel

ScanSpec == DispatchInit /\ [][ScanNext]_vars

\* C11: with hq-cv-1 left tracking gt-abc and gt-def, open and unassigned,
\* once gt-abc is closed the engine slings gt-def, and over all its dispatch
\* paths it slings gt-def exactly once: never a second time.
C11_FedExactlyOnce ==
  /\ [](GtAbcClosedFirst => slings["gt-def"] <= 1)
  /\ (GtAbcClosedFirst ~> slings["gt-def"] = 1)

\* C12: no step of the engine, event-path check or stranded-scan
\* auto-close, takes a convoy from open to closed unless every issue the
\* convoy tracks is closed.
C12_ClosesOnlyWhenComplete ==
  [][ \A c \in Convoys :
        (convoys[c] = "open" /\ convoys'[c] = "closed") =>
          \A i \in SeqToSet(Tracks[c]) : issues'[i].status = "closed" ]_vars

C12_Witness ==
  /\ convoys["hq-cv-2"] = "closed"
  /\ convoys["hq-cv-1"] = "open"
  /\ issues["gt-def"].status # "closed"

\* C13: while the manager keeps running and commands succeed, an open
\* convoy whose tracked issues are all closed is eventually closed, whether
\* or not the event path acted on the closes.
C13_SweepRepairs ==
  \A c \in Convoys :
    (convoys[c] = "open" /\ AllTrackedClosed(World, c))
      ~> (convoys[c] = "closed")

C13_Witness ==
  /\ convoys["hq-cv-2"] = "closed"
  /\ notified = {}
  /\ cycles = 1
  /\ pollPc = "select"
  /\ \A s \in StoreNames : lastEventIDs[s] = Len(eventLog[s])

----------------------------------------------------------------------------
(* Dispatch properties *)

\* the sling attempts of the invocation on record
Attempts(r) ==
  UNION {{r.feeds[k].attempts[j] : j \in DOMAIN r.feeds[k].attempts} :
         k \in DOMAIN r.feeds}

\* this step is a scan step that processed a snapshot entry
EntryStep ==
  /\ Len(scanLog') = Len(scanLog) + 1
  /\ scanLog'[Len(scanLog')].did # "error"

\* this step is an invocation of CheckConvoysForIssue
CheckStep == runs' # runs /\ runs' # <<>>

\* C24: no sling is issued for an issue whose rig is parked when the sling
\* is issued, neither by a feed of the event path nor by the stranded scan;
\* the scan makes no attempt and meets no error for a ready issue on a
\* parked rig and goes on to the next convoy of the snapshot.
C24_NoSlingToParkedRig ==
  [][/\ CheckStep => \A a \in Attempts(runs'[1]) : a.rig \notin parked
     /\ EntryStep =>
           LET rec == scanLog'[Len(scanLog')] IN
             /\ rec.did = "sling" => rec.rig \notin parked
             /\ rec.did = "parked" =>
                   /\ rec.ok
                   /\ slings' = slings
                   /\ stranded' = Tail(stranded)]_vars

\* the issue has no rig: no prefix, a prefix without a route, or a route to
\* the town level
Unrouted(id) ==
  \/ ExtractPrefix(id) = ""
  \/ ExtractPrefix(id) \notin DOMAIN Routes
  \/ Routes[ExtractPrefix(id)] = "."

\* C25: an issue whose prefix has the town-level route or no route is the
\* issue of no sling attempt, neither of a feed of the event path nor of the
\* stranded scan, and has never been slung.
C25_UnroutedNeverDispatched ==
  /\ \A n \in DOMAIN runs : \A a \in Attempts(runs[n]) : ~Unrouted(a.issue)
  /\ \A k \in DOMAIN scanLog :
       scanLog[k].did = "sling" => ~Unrouted(scanLog[k].issue)
  /\ \A i \in Issues : Unrouted(i) => (slings[i] = 0 /\ i \notin dispatched)

\* C25 happens: a feed of hq-cv-1 passed over hq-xyz, open and unassigned,
\* and dispatched another issue, and the scan has passed over zz-nop, the
\* first ready issue of its entry
C25_Witness ==
  /\ \E n \in DOMAIN runs : \E k \in DOMAIN runs[n].feeds :
       /\ runs[n].feeds[k].tracked[1] =
            [id |-> "hq-xyz", status |-> "open", assignee |-> "",
             priority |-> Priority["hq-xyz"]]
       /\ runs[n].feeds[k].attempts # <<>>
  /\ Len(scanLog) = 1
  /\ scanLog[1].entry.ready_issues = <<"zz-nop", "sh-ghi">>
  /\ scanLog[1].did = "norig"
  /\ scanLog[1].ok

\* C26 as stated: for each snapshot entry with ready_count > 0 the scan
\* makes one dispatch attempt, for the first listed ready issue.
C26_ExactlyFirstReady ==
  \A k \in DOMAIN scanLog :
    scanLog[k].entry.ready_count > 0 =>
      /\ scanLog[k].did = "sling"
      /\ scanLog[k].issue = scanLog[k].entry.ready_issues[1]

\* C26: for each snapshot entry with ready_count > 0 the scan never runs
\* the close command and makes at most one dispatch attempt; it makes one,
\* for the first listed ready issue and no other, exactly when the entry
\* lists an issue and the first one has a rig that is not parked.
C26_AtMostFirstReady ==
  \A k \in DOMAIN scanLog :
    LET rec == scanLog[k] IN
      rec.entry.ready_count > 0 =>
        /\ rec.did \notin {"check", "error"}
        /\ rec.did = "sling" <=>
              /\ rec.entry.ready_issues # <<>>
              /\ ~Unrouted(rec.entry.ready_issues[1])
              /\ GetRigNameForPrefix(ExtractPrefix(rec.entry.ready_issues[1]))
                   \notin rec.parked
        /\ rec.did = "sling" => rec.issue = rec.entry.ready_issues[1]

\* C26 happens: the scan slung gt-abc, the first of two listed issues, for
\* one entry, and nothing for an entry with ready_count 1 that lists no issue
C26_Witness ==
  /\ Len(scanLog) = 2
  /\ scanLog[1].entry.ready_issues = <<"gt-abc", "sh-ghi">>
  /\ scanLog[1].did = "sling" /\ scanLog[1].issue = "gt-abc"
  /\ slings["gt-abc"] = 1 /\ slings["sh-ghi"] = 0
  /\ scanLog[2].entry.ready_count = 1
  /\ scanLog[2].did = "empty"

\* C27: the scan step for a snapshot entry whose ready_count is not greater
\* than zero runs the close command, `convoy check`, for the entry's convoy
\* and slings nothing; when the command succeeds and every tracked issue of
\* the convoy is closed, the step leaves the convoy closed.
C27_CloseWhenNotReady ==
  [][EntryStep =>
       LET rec == scanLog'[Len(scanLog')] IN
         ~(rec.entry.ready_count > 0) =>
           /\ rec.entry = Head(stranded)
           /\ rec.did = "check"
           /\ slings' = slings
           /\ (rec.ok /\ AllTrackedClosed(World, rec.entry.id)) =>
                convoys'[rec.entry.id] = "closed"]_vars

\* C27 happens: the scan ran the close command for an entry of hq-cv-2 with
\* ready_count 0, which closed the convoy, and for an entry of hq-cv-1 with
\* a negative ready_count that lists an issue
C27_Witness ==
  /\ Len(scanLog) = 2
  /\ scanLog[1].entry.ready_count = 0 /\ scanLog[1].did = "check"
  /\ scanLog[1].ok
  /\ convoys["hq-cv-2"] = "closed"
  /\ scanLog[2].entry.ready_count < 0 /\ scanLog[2].did = "check"
  /\ scanLog[2].entry.ready_issues # <<>>
  /\ slings = [i \in Issues |-> 0]

\* the part of the store a scan cycle may change
Touched == <<issues, convoys, eventLog, dispatched, slings>>

\* C28: a scan cycle whose findStranded fails has no entry to process and
\* changes nothing, and its one step after the failure is the return to the
\* loop that waits for the next tick.
C28_FailedFindSkipsCycle ==
  [][/\ (scanLog' # scanLog /\ scanLog' = <<ScanFailed>>) =>
           (stranded' = <<>> /\ Touched' = Touched)
     /\ (scanLog = <<ScanFailed>> /\ scanLog' # scanLog) =>
           (scanLog' = <<>> /\ scanPc' = "select" /\ stranded' = <<>>
            /\ Touched' = Touched)]_vars

\* C28 happens: findStranded has failed in a manager that is not cancelled
C28_Witness ==
  /\ scanLog = <<ScanFailed>>
  /\ stranded = <<>>
  /\ ~cancelled
  /\ scanPc = "convoys"

\* C29: once the context is cancelled, a scan cycle under way processes no
\* further entry: no record is added, nothing is slung, and the cycle's next
\* step drops what is left of the snapshot and returns.
C29_CancelStopsScan ==
  [][(cancelled /\ scanPc = "convoys") =>
       /\ scanLog' \in {scanLog, <<>>}
       /\ slings' = slings
       /\ (scanLog' # scanLog \/ stranded' # stranded) =>
            (stranded' = <<>> /\ scanPc' = "select")]_vars

\* C29 happens: the context was cancelled after the scan had processed the
\* first entry of a snapshot, with the second still to come
C29_Witness ==
  /\ cancelled
  /\ scanPc = "convoys"
  /\ Len(scanLog) = 1 /\ scanLog[1].did = "sling"
  /\ stranded # <<>>

\* C30: a scan step that processes an entry goes on to the next entry of
\* the snapshot whether its sling or close command failed or not, and a
\* command that failed changes nothing.
C30_FailureDoesNotStopScan ==
  [][EntryStep =>
       LET rec == scanLog'[Len(scanLog')] IN
         /\ scanLog' = Append(scanLog, rec)
         /\ rec.entry = Head(stranded)
         /\ stranded' = Tail(stranded)
         /\ scanPc' = "convoys"
         /\ ~rec.ok => Touched' = Touched]_vars

\* C30 happens: the sling for the first entry failed and the scan has slung
\* the second entry's first ready issue
C30_Witness ==
  /\ Len(scanLog) >= 2
  /\ scanLog[1].did = "sling" /\ ~scanLog[1].ok
  /\ scanLog[2].did = "sling" /\ scanLog[2].ok
  /\ slings[scanLog[2].issue] = 1


----------------------------------------------------------------------------
(* Loop properties *)

\* this step is the poll loop taking a tick from its ticker
TickTaken == pollPc = "select" /\ pollTick /\ ~pollTick'

\* this step invokes the store-opening callback
OpenerStep == openCalls' = openCalls + 1

\* C31: the store-opening callback is invoked on every poll tick taken
\* while the store table is empty, and on no other step; once it has
\* yielded a non-empty set it is never invoked again.
C31_LazyOpenUntilStores ==
  [][/\ (TickTaken /\ stores = {} /\ openStores) => OpenerStep
     /\ OpenerStep => (TickTaken /\ stores = {})
     /\ lazyOpened => openCalls' = openCalls]_vars

C31_Witness ==
  /\ openCalls = 2
  /\ lazyOpened
  /\ tickAfterOpen
  /\ stores = StoreNames


\* subprocesses a loop has in flight
OwnInFlight(p) == IF p = "none" THEN 0 ELSE 1

\* C32: a manager has at most one event-poll loop and one stranded-scan
\* loop; each loop has a subprocess only while it is blocked in the call
\* that started it, so each has at most one in flight, every subprocess in
\* flight belongs to one of the two loops, and there are never more than two.
C32_TwoLoopsOneSubprocessEach ==
  /\ pollLoops <= 1
  /\ scanLoops <= 1
  /\ pollProc # "none" => pollPc = "cmd"
  /\ scanProc # "none" => scanPc \in {"findCmd", "convoyCmd"}
  /\ inflight = OwnInFlight(pollProc) + OwnInFlight(scanProc)
  /\ inflight <= 2

C32_Witness ==
  /\ inflight = 2
  /\ ProcAlive(pollProc)
  /\ ProcAlive(scanProc)
  /\ ~cancelled


\* C33: a subprocess that never exits holds up the loop that started it and
\* no other: while the poll loop is blocked in one, a tick of the scan
\* ticker is still taken and starts a scan cycle, and while the scan loop
\* is blocked in one, a tick of the poll ticker is still taken, unless the
\* manager is cancelled first.
C33_HungStallsOneLoop ==
  /\ (ProcHung(pollProc) /\ scanPc = "select" /\ scanTick)
        ~> (scanPc = "findStranded" \/ cancelled)
  /\ (ProcHung(scanProc) /\ pollPc = "select" /\ pollTick /\ stores # {})
        ~> (pollPc = "cycle" \/ cancelled)

C33_Witness ==
  /\ passedHung
  /\ ~cancelled
  /\ ProcHung(pollProc)
  /\ scanPc = "findCmd"
  /\ scanProc = "running"


----------------------------------------------------------------------------
(* High-water marks: Start() calls and the poll goroutines they spawn, each
   pollStore call split into the load of the mark and the fetch, store and
   processing that follow, beside the scan loop and the closing of issues *)

\* the poll goroutines spawned so far
Pollers == {g \in StartCallers : g <= pollLoops}

\* the issues that get closed while the marks are watched
MarkClosers == {"gt-def", "sh-ghi"}

\* A manager constructed over its three stores and not started yet
MarkInit ==
  /\ Init
  /\ stores = StoreNames
  /\ ~openStores

markFrame == <<lifeVars, flying, dedup, stranded, polled, fetchFailed,
               scanLog, parked, pending, cycles, startLen, fetched, runs>>

\* runEventPoll, case <-ticker.C: the goroutine is back at its select, so
\* its last pollAllStores call has returned; it enters the next one
MarkCycleBegin(g) ==
  /\ g \in Pollers
  /\ ~cancelled
  /\ ~rmw[g].on
  /\ rmw' = [rmw EXCEPT ![g] = [on |-> TRUE, left |-> stores, store |-> "",
                                loaded |-> 0]]
  /\ UNCHANGED <<markFrame, issues, convoys, eventLog, lastEventIDs, seeded,
                 notified, dispatched, slings>>

\* pollAllStores: the loop reaches a store, skips it when its rig is
\* parked, and else enters pollStore: `m.lastEventIDs.Load(name)`
MarkLoad(g, name) ==
  /\ g \in Pollers
  /\ rmw[g].on
  /\ rmw[g].store = ""
  /\ name \in rmw[g].left
  /\ rmw' = [rmw EXCEPT ![g] =
               IF SkipStore(name, name \in parked)
                 THEN [@ EXCEPT !.left = @ \ {name}]
                 ELSE [on |-> TRUE, left |-> @.left \ {name}, store |-> name,
                       loaded |-> lastEventIDs[name]]]
  /\ UNCHANGED <<markFrame, issues, convoys, eventLog, lastEventIDs, seeded,
                 notified, dispatched, slings>>

\* pollStore from GetAllEventsSince on: the fetch, `m.lastEventIDs.Store`,
\* and after warm-up the completion checks of the events fetched
MarkStore(g, fetchOK, out) ==
  /\ g \in Pollers
  /\ rmw[g].store # ""
  /\ rmw' = [rmw EXCEPT ![g].store = "", ![g].loaded = 0]
  /\ IF ~fetchOK
       THEN UNCHANGED <<issues, convoys, eventLog, lastEventIDs, notified,
                        dispatched, slings>>
       ELSE LET name == rmw[g].store
                ids == GetAllEventsSince(eventLog[name], rmw[g].loaded)
            IN
         /\ lastEventIDs' = [lastEventIDs EXCEPT
                               ![name] = AdvanceMark(rmw[g].loaded, ids)]
         /\ IF ~seeded \/ "hq" \notin stores
              THEN UNCHANGED <<issues, convoys, eventLog, notified,
                               dispatched, slings>>
              ELSE \E r \in {ProcessEvents([w |-> World, seen |-> {}], name,
                                            ids, parked, out)} :
                /\ issues' = r.w.issues
                /\ convoys' = r.w.convoys
                /\ eventLog' = r.w.log
                /\ dispatched' = r.w.disp
                /\ slings' = r.w.slung
                /\ notified' = notified \cup
                     {[store |-> name, id |-> n.id, cycle |-> 0,
                       via |-> n.via, examined |-> n.examined] :
                        n \in r.seen}
  /\ UNCHANGED <<markFrame, seeded>>

\* pollAllStores: after the loop, `m.seeded = true`; back to the select
MarkCycleEnd(g) ==
  /\ g \in Pollers
  /\ rmw[g].on
  /\ rmw[g].store = ""
  /\ rmw[g].left = {}
  /\ rmw' = [rmw EXCEPT ![g] = NoCycle]
  /\ seeded' = TRUE
  /\ UNCHANGED <<markFrame, issues, convoys, eventLog, lastEventIDs,
                 notified, dispatched, slings>>

MarkNext ==
  \/ \E c \in StartCallers : StartCAS(c)
  \/ \E c \in StartCallers : StartLaunch(c)
  \/ \E g \in StartCallers : MarkCycleBegin(g)
  \/ \E g \in StartCallers, name \in StoreNames : MarkLoad(g, name)
  \/ \E g \in StartCallers, fetchOK \in BOOLEAN, out \in PollOutcomes :
       MarkStore(g, fetchOK, out)
  \/ \E g \in StartCallers : MarkCycleEnd(g)
  \/ \E i \in MarkClosers : CloseIssue(i)
  \/ ScanTickArrives
  \/ ScanFindStart
  \/ ScanFindReturn
  \/ ScanConvoy
  \/ ScanCmdReturn
  \/ ScanSelectTick

MarkSpec == MarkInit /\ [][MarkNext]_vars

\* the poll goroutines inside a pollAllStores call
InCycle == {g \in StartCallers : rmw[g].on}

\* C34: at most one pollAllStores call of a manager is under way at any
\* time; a high-water mark changes only in the step in which the poll
\* goroutine stores it, only the mark of the store that goroutine is
\* polling changes, and the mark still has the value the goroutine loaded,
\* so nothing has written it between the load and the store.
C34_MarksReadModifyWrite ==
  /\ [](Cardinality(InCycle) <= 1)
  /\ [][lastEventIDs' # lastEventIDs =>
          \E g \in StartCallers :
            /\ InCycle = {g}
            /\ rmw[g].store # ""
            /\ rmw'[g].store = ""
            /\ lastEventIDs[rmw[g].store] = rmw[g].loaded
            /\ \A s \in StoreNames \ {rmw[g].store} :
                 lastEventIDs'[s] = lastEventIDs[s]]_vars

C34_Witness ==
  /\ seeded
  /\ rmw[1].store = "gastown"
  /\ rmw[1].loaded = 1
  /\ Len(eventLog["gastown"]) = 2
  /\ lastEventIDs["shippercrm"] = 1
  /\ scanPc = "convoyCmd"


\* this step enters m.scan() or pollAllStores
CycleEntered ==
  \/ scanPc = "findStranded" /\ scanPc' # "findStranded"
  \/ pollPc # "cycle" /\ pollPc' = "cycle"

\* C35: once a Stop() call has returned, no loop of the manager is running,
\* none is spawned and no poll cycle or scan cycle is entered, whenever the
\* Start() calls were made.
C35_StoppedIsTerminal ==
  /\ [](stopCalls >= 1 => ~LoopRunning(pollPc) /\ ~LoopRunning(scanPc))
  /\ [][stopCalls >= 1 =>
          /\ pollLoops' = pollLoops
          /\ scanLoops' = scanLoops
          /\ ~CycleEntered]_vars


----------------------------------------------------------------------------
(* Poller properties *)

\* this step is the first poll of store s that fetched anything: it takes
\* the mark from zero
FirstFetch(s) == lastEventIDs[s] = 0 /\ lastEventIDs'[s] > 0

\* C36: the warm-up holds for each store: the poll that first fetches from
\* a store, in whatever cycle, advances the store's mark and triggers no
\* completion check for the events the store held when the manager started.
C36_WarmUpPerStore ==
  [][\A s \in StoreNames :
       FirstFetch(s) =>
         \A n \in notified' \ notified :
           ~(n.store = s /\ n.id <= startLen[s])]_vars


\* the events of store s the step moves the mark past
Consumed(s) == (lastEventIDs[s] + 1)..lastEventIDs'[s]

\* C37: after the warm-up, every close event with an issue id that a poll
\* moves a store's mark past has a completion check invoked for it in that
\* poll, whether or not the manager has the hq store.
C37_NoCloseConsumedUnchecked ==
  [][seeded =>
       \A s \in StoreNames : \A id \in Consumed(s) :
         (isClose(eventLog[s][id]) /\ eventLog[s][id].issue # "") =>
            \E n \in notified' : n.store = s /\ n.id = id]_vars


----------------------------------------------------------------------------
(* Protocol properties: the closed-state lookup *)

\* C38: feedNextReadyIssue runs only for a convoy that is open in the hq
\* store when it is fed, also when the lookup of the convoy fails or finds
\* nothing.
C38_NoFeedForClosedConvoy ==
  \A n \in DOMAIN runs : \A c \in Fed(runs[n]) :
    runs[n].after.convoys[c] = "open"


----------------------------------------------------------------------------
(* Slings in flight: the event path of the poll loop and the stranded scan
   side by side, each `gt sling` a subprocess that exits some steps after
   it was started *)

\* the issue of the last sling of an invocation, "" when it made none
LastSling(r) ==
  LET fed == {k \in DOMAIN r.feeds : r.feeds[k].attempts # <<>>} IN
    IF fed = {} THEN ""
    ELSE LET k == CHOOSE x \in fed : \A y \in fed : y <= x
         IN r.feeds[k].attempts[Len(r.feeds[k].attempts)].issue

\* pollStore: CheckConvoysForIssue for a close event, up to the point where
\* its last `gt sling` has been started
FlightCheck(i, out) ==
  /\ flying.poll = ""
  /\ ProtoCheckCore("Convoy", i, out)
  /\ flying' = [flying EXCEPT !.poll = LastSling(runs'[1])]
  /\ UNCHANGED <<rmw, dedup>>

\* the sling of the poll loop exits and CheckConvoysForIssue returns
FlightCheckReturn ==
  /\ flying.poll # ""
  /\ flying' = [flying EXCEPT !.poll = ""]
  /\ UNCHANGED <<lifeVars, engVars, sweepVars, rmw, dedup>>

\* scan: the loop body for one convoy, up to the point where the `gt sling`
\* of feedFirstReady has been started
FlightConvoy(out) ==
  /\ flying.scan = ""
  /\ SweepConvoyCore(out)
  /\ flying' = [flying EXCEPT !.scan =
                  IF CtxDone(cancelled) THEN ""
                  ELSE ScanRecord(Head(stranded), parked, out).issue]
  /\ UNCHANGED <<rmw, dedup>>

\* the sling of the scan loop exits and feedFirstReady returns
FlightSlingExit ==
  /\ flying.scan # ""
  /\ flying' = [flying EXCEPT !.scan = ""]
  /\ UNCHANGED <<lifeVars, engVars, sweepVars, rmw, dedup>>

\* scan() returns once its last command has exited
FlightScanReturn ==
  /\ flying.scan = ""
  /\ SweepReturn

FlightNext ==
  \/ CloseIssue("gt-def")
  \/ \E i \in Issues, out \in PollOutcomes : FlightCheck(i, out)
  \/ FlightCheckReturn
  \/ \E ok \in BOOLEAN : SweepFind(ok)
  \/ \E out \in PollOutcomes : FlightConvoy(out)
  \/ FlightSlingExit
  \/ FlightScanReturn

FlightSpec == DispatchInit /\ [][FlightNext]_vars

\* C39: the poll loop and the scan loop never have `gt sling` subprocesses
\* for the same issue in flight at the same time.
C39_NoConcurrentSlingOfOneIssue ==
  ~(flying.poll # "" /\ flying.poll = flying.scan)


----------------------------------------------------------------------------
(* MessageDeduplicator: patrol goroutines calling AlreadyProcessed, each
   call split into taking the mutex, the lookup, the insertion and the
   return with the deferred unlock *)

dedupFrame == <<lifeVars, engVars, sweepVars, rmw, flying>>

MuFree_NoLock(holder) == TRUE

\* d.mu.Lock() returns when nobody holds the mutex
MuFree(holder) == holder = 0

\* what one call returns
Returned(d, c) ==
  [d EXCEPT !.calls[c] = [pc |-> "idle", id |-> "", res |-> FALSE],
            !.rets[d.calls[c].id] =
               IF d.calls[c].res THEN [@ EXCEPT !.yes = @ + 1]
                                 ELSE [@ EXCEPT !.no = @ + 1]]

\* AlreadyProcessed(id) is called; an empty id returns false at once
DedupCall(c, id) ==
  /\ dedup.calls[c].pc = "idle"
  /\ dedup.made[id] < MaxCalls
  /\ dedup' =
       IF id = ""
         THEN Returned([dedup EXCEPT !.made[id] = @ + 1,
                                     !.calls[c] = [pc |-> "idle", id |-> "",
                                                   res |-> FALSE]], c)
         ELSE [dedup EXCEPT !.made[id] = @ + 1,
                            !.calls[c] = [pc |-> "lock", id |-> id,
                                          res |-> FALSE]]
  /\ UNCHANGED dedupFrame

\* d.mu.Lock()
DedupLock(c) ==
  /\ dedup.calls[c].pc = "lock"
  /\ MuFree(dedup.mu)
  /\ dedup' = [dedup EXCEPT !.mu = c, !.calls[c].pc = "check"]
  /\ UNCHANGED dedupFrame

\* `if d.processed[messageID]` and `if len(d.processed) >= d.maxSize`
DedupCheck(c) ==
  /\ dedup.calls[c].pc = "check"
  /\ dedup' =
       IF dedup.calls[c].id \in dedup.processed
         THEN [dedup EXCEPT !.calls[c].pc = "unlock", !.calls[c].res = TRUE]
       ELSE IF Cardinality(dedup.processed) >= dedup.maxSize
         THEN [dedup EXCEPT !.calls[c].pc = "unlock", !.calls[c].res = FALSE]
       ELSE [dedup EXCEPT !.calls[c].pc = "set"]
  /\ UNCHANGED dedupFrame

\* d.processed[messageID] = true
DedupSet(c) ==
  /\ dedup.calls[c].pc = "set"
  /\ dedup' = [dedup EXCEPT !.processed = @ \cup {dedup.calls[c].id},
                            !.calls[c].pc = "unlock",
                            !.calls[c].res = FALSE]
  /\ UNCHANGED dedupFrame

\* the deferred d.mu.Unlock() and the return
DedupReturn(c) ==
  /\ dedup.calls[c].pc = "unlock"
  /\ dedup' = Returned([dedup EXCEPT !.mu = 0], c)
  /\ UNCHANGED dedupFrame

DedupNext ==
  \/ \E c \in Patrols, id \in MessageIDs : DedupCall(c, id)
  \/ \E c \in Patrols : DedupLock(c)
  \/ \E c \in Patrols : DedupCheck(c)
  \/ \E c \in Patrols : DedupSet(c)
  \/ \E c \in Patrols : DedupReturn(c)

DedupSpec == DispatchInit /\ [][DedupNext]_vars

\* the calls with this id that have returned false or are about to
FalseFor(id) ==
  dedup.rets[id].no
    + Cardinality({c \in Patrols : /\ dedup.calls[c].id = id
                                   /\ dedup.calls[c].pc = "unlock"
                                   /\ ~dedup.calls[c].res})

\* C40: for a non-empty message id that entered the set, one call with the
\* id, and only one, returns false, however the calls of the goroutines
\* interleave; a call returns true only for an id in the set, and a call
\* returns false without the id entering the set only at capacity.
C40_CheckAndSetAtomic ==
  \A id \in MessageIDs \ {""} :
    /\ id \in dedup.processed => FalseFor(id) = 1
    /\ dedup.rets[id].yes > 0 => id \in dedup.processed
    /\ (id \notin dedup.processed /\ FalseFor(id) > 0) =>
          Cardinality(dedup.processed) >= dedup.maxSize

C40_Witness ==
  /\ dedup.processed = {"msg-1"}
  /\ Cardinality(dedup.processed) < dedup.maxSize
  /\ dedup.calls[1] = [pc |-> "unlock", id |-> "msg-1", res |-> FALSE]
  /\ dedup.calls[2] = [pc |-> "lock", id |-> "msg-1", res |-> FALSE]
  /\ dedup.rets["msg-1"] = [no |-> 0, yes |-> 0]

====
